---- MODULE Spec2Model ----
(***************************************************************************)
(* Model of the filter standardizer, lib/api/dsl/transform/standardize.js. *)
(*                                                                         *)
(* A call standardize(filters) is a pure computation over a JSON tree.     *)
(* JavaScript values are tagged records; a promise that has settled, a     *)
(* synchronous throw and a plain (non-promise) return value are the four   *)
(* kinds of completion of a call.                                          *)
(***************************************************************************)
EXTENDS Integers, Sequences, FiniteSets, TLC

VARIABLES filters, pc, outcome, written, frames

vars == <<filters, pc, outcome, written, frames>>

(***************************************************************************)
(* JavaScript values.  An object is the sequence of its <<key, value>>     *)
(* pairs in insertion order, which is the order Object.keys reports.       *)
(***************************************************************************)
Undefined == [t |-> "undefined"]

Null == [t |-> "null"]

Bool(b) == [t |-> "boolean", b |-> b]

Num(n) == [t |-> "number", n |-> n]

Str(s) == [t |-> "string", s |-> s]

Arr(a) == [t |-> "array", a |-> a]

Obj(o) == [t |-> "object", o |-> o]

\* {k: v}
Obj1(k, v) == Obj(<< <<k, v>> >>)

\* {k1: v1, k2: v2}
Obj2(k1, v1, k2, v2) == Obj(<< <<k1, v1>>, <<k2, v2>> >>)

\* typeof v
typeof(v) ==
  CASE v.t = "null" -> "object"
    [] v.t = "array" -> "object"
    [] OTHER -> v.t

\* Array.isArray(v)
isArray(v) == v.t = "array"

\* ToBoolean(v): the test of `if (v)` and of `!v`
truthy(v) ==
  CASE v.t = "undefined" -> FALSE
    [] v.t = "null" -> FALSE
    [] v.t = "boolean" -> v.b
    [] v.t = "number" -> v.n # 0
    [] v.t = "string" -> v.s # ""
    [] OTHER -> TRUE

\* a decimal digit
Digit(i) == <<"0", "1", "2", "3", "4", "5", "6", "7", "8", "9">>[i + 1]

\* the decimal form of an array index below 100
IndexName(i) == IF i < 10 THEN Digit(i) ELSE Digit(i \div 10) \o Digit(i % 10)

\* Object.keys(v) for a value that is neither null nor undefined
ObjectKeys(v) ==
  CASE v.t = "object" -> [i \in 1..Len(v.o) |-> v.o[i][1]]
    [] v.t = "array" -> [i \in 1..Len(v.a) |-> IndexName(i - 1)]
    [] v.t = "string" -> [i \in 1..Len(v.s) |-> IndexName(i - 1)]
    [] OTHER -> <<>>

\* v[k] for a value that is neither null nor undefined
Get(v, k) ==
  CASE v.t = "object" ->
         IF \E i \in 1..Len(v.o) : v.o[i][1] = k
           THEN v.o[CHOOSE i \in 1..Len(v.o) : v.o[i][1] = k][2]
           ELSE Undefined
    [] v.t = "array" ->
         IF \E i \in 1..Len(v.a) : IndexName(i - 1) = k
           THEN v.a[CHOOSE i \in 1..Len(v.a) : IndexName(i - 1) = k]
           ELSE Undefined
    [] OTHER -> Undefined

\* array.findIndex(P), counted from 1, and 0 for -1
FindIndex(a, P(_)) ==
  IF \E i \in 1..Len(a) : P(a[i])
    THEN CHOOSE i \in 1..Len(a) : P(a[i]) /\ \A j \in 1..(i - 1) : ~P(a[j])
    ELSE 0

\* array.findIndex(P) > -1
Some(a, P(_)) == \E i \in 1..Len(a) : P(a[i])

\* array.indexOf(x) > -1, array.includes(x)
Includes(a, x) == \E i \in 1..Len(a) : a[i] = x

(***************************************************************************)
(* Errors and completions.                                                 *)
(***************************************************************************)
NoError == [class |-> "none", message |-> ""]

BadRequestError(msg) == [class |-> "BadRequestError", message |-> msg]

\* the engine's error for a property read or a call on undefined or null
TypeError(msg) == [class |-> "TypeError", message |-> msg]

\* the engine's error for a call stack that cannot grow further
RangeError(msg) == [class |-> "RangeError", message |-> msg]

\* what `x.k` and `x[k]` throw when x is undefined or null
ReadOfNullish(k) == TypeError("Cannot read property '" \o k \o "' of undefined or null")

\* what Object.keys(x) throws when x is undefined or null
KeysOfNullish == TypeError("Cannot convert undefined or null to object")

\* Promise.resolve(v), and a `.then` callback that returns v
Resolve(v) == [kind |-> "fulfilled", value |-> v, error |-> NoError]

\* Promise.reject(e)
Reject(e) == [kind |-> "rejected", value |-> Undefined, error |-> e]

\* an exception leaving the function, outside of any promise
Throw(e) == [kind |-> "thrown", value |-> Undefined, error |-> e]

\* a return value that is not a promise
Return(v) == [kind |-> "returned", value |-> v, error |-> NoError]

\* a completion seen from inside a `.then` callback: an exception thrown by
\* the callback rejects the chained promise, a plain value fulfils it
Settled(c) ==
  CASE c.kind = "thrown" -> Reject(c.error)
    [] c.kind = "returned" -> Resolve(c.value)
    [] OTHER -> c

\* p.then(F)
Then(p, F(_)) == IF p.kind = "fulfilled" THEN Settled(F(p.value)) ELSE p

\* the value of a local variable or of a link of a promise chain, evaluated
\* once: the element of the set of that one value
Only(S) == CHOOSE x \in S : TRUE

(***************************************************************************)
(* Validation primitives (standardize.js, bottom of the file).  A list of  *)
(* keys travels through a promise chain as an array of strings.            *)
(***************************************************************************)
KeyList(keys) == Arr([i \in 1..Len(keys) |-> Str(keys[i])])

\* onlyOneFieldAttribute(fieldsList, keyword)
onlyOneFieldAttribute(fieldsList, keyword) ==
  IF Len(fieldsList.a) > 1
    THEN Reject(BadRequestError("\"" \o keyword \o "\" can contain only one attribute"))
    ELSE Resolve(fieldsList)

\* requireAttribute(filter, keyword, attribute)
requireAttribute(filter, keyword, attribute) ==
  IF filter \in {Null, Undefined} THEN Throw(ReadOfNullish(attribute))
  ELSE IF ~truthy(Get(filter, attribute))
    THEN Reject(BadRequestError("\"" \o keyword \o "\" requires the following attribute: " \o attribute))
    ELSE Resolve(Undefined)

\* mustBeNonEmptyObject(filter, keyword)
mustBeNonEmptyObject(filter, keyword) ==
  IF \/ ~truthy(filter)
     \/ typeof(filter) # "object"
     \/ isArray(filter)
     \/ Len(ObjectKeys(filter)) = 0
    THEN Reject(BadRequestError("\"" \o keyword \o "\" must be a non-empty object"))
    ELSE Resolve(KeyList(ObjectKeys(filter)))

\* mustBeString(filter, keyword, field)
mustBeString(filter, keyword, field) ==
  IF filter \in {Null, Undefined} THEN Throw(ReadOfNullish(field))
  ELSE IF typeof(Get(filter, field)) # "string"
    THEN Reject(BadRequestError("Attribute \"" \o field \o "\" in \"" \o keyword \o "\" must be a string"))
    ELSE Resolve(Undefined)

\* mustBeNonEmptyArray(filter, keyword, field)
mustBeNonEmptyArray(filter, keyword, field) ==
  IF filter \in {Null, Undefined} THEN Throw(ReadOfNullish(field))
  ELSE IF ~isArray(Get(filter, field))
    THEN Reject(BadRequestError("Attribute \"" \o field \o "\" in \"" \o keyword \o "\" must be an array"))
    ELSE IF Len(Get(filter, field).a) = 0
      THEN Reject(BadRequestError("Attribute \"" \o field \o "\" in  \"" \o keyword \o "\" cannot be empty"))
      ELSE Resolve(Undefined)

(***************************************************************************)
(* Leaf predicates.                                                        *)
(***************************************************************************)
\* exists (filter, name), with `name = name || 'exists'` already applied
existsAs(filter, name) ==
  LET p1 == mustBeNonEmptyObject(Get(filter, name), name)
      p2 == Then(p1, LAMBDA field : onlyOneFieldAttribute(field, name))
      p3 == Then(p2, LAMBDA u : mustBeString(Get(filter, name), name, "field"))
  IN Then(p3, LAMBDA u :
       IF Len(Get(Get(filter, name), "field").s) = 0
         THEN Reject(BadRequestError("exists: cannot test empty field name"))
         ELSE Return(filter))

\* exists (filter)
exists(filter) == existsAs(filter, "exists")

\* EqualsEach with the values taken from the last to the first
EqualsEachReversed(field, values) ==
  Arr([i \in 1..Len(values.a) |->
        Obj1("equals", Obj1(field, values.a[Len(values.a) + 1 - i]))])

\* v => ({equals: {[field]: v}}) mapped over an array of values
EqualsEach(field, values) ==
  Arr([i \in 1..Len(values.a) |-> Obj1("equals", Obj1(field, values.a[i]))])

\* the node built by `ids` and by `in`: {or: [...equals], _isLeaf: true}
OrOfEquals(field, values) ==
  Obj2("or", EqualsEach(field, values), "_isLeaf", Bool(TRUE))

\* ids without its test that every value is a string
idsOfAnything(filter) ==
  LET p1 == mustBeNonEmptyObject(Get(filter, "ids"), "ids")
      p2 == Then(p1, LAMBDA field : onlyOneFieldAttribute(field, "ids"))
      p3 == Then(p2, LAMBDA u : requireAttribute(Get(filter, "ids"), "ids", "values"))
      p4 == Then(p3, LAMBDA u : mustBeNonEmptyArray(Get(filter, "ids"), "ids", "values"))
  IN Then(p4, LAMBDA u : Return(OrOfEquals("_id", Get(Get(filter, "ids"), "values"))))

\* ids (filter)
ids(filter) ==
  LET p1 == mustBeNonEmptyObject(Get(filter, "ids"), "ids")
      p2 == Then(p1, LAMBDA field : onlyOneFieldAttribute(field, "ids"))
      p3 == Then(p2, LAMBDA u : requireAttribute(Get(filter, "ids"), "ids", "values"))
      p4 == Then(p3, LAMBDA u : mustBeNonEmptyArray(Get(filter, "ids"), "ids", "values"))
  IN Then(p4, LAMBDA u :
       IF Some(Get(Get(filter, "ids"), "values").a, LAMBDA v : typeof(v) # "string")
         THEN Reject(BadRequestError("Array \"values\" in keyword \"ids\" can only contain strings"))
         ELSE Return(OrOfEquals("_id", Get(Get(filter, "ids"), "values"))))

\* missing with the validated filter itself under `not`
missingUnderNot(filter) ==
  Then(existsAs(filter, "missing"), LAMBDA f : Return(Obj1("not", f)))

\* missing (filter)
missing(filter) ==
  Then(existsAs(filter, "missing"), LAMBDA f :
    Return(Obj1("not", Obj1("exists", Obj1("field", Get(Get(f, "missing"), "field"))))))

\* equals (filter)
equals(filter) ==
  LET p1 == mustBeNonEmptyObject(Get(filter, "equals"), "equals")
      p2 == Then(p1, LAMBDA field : onlyOneFieldAttribute(field, "equals"))
      p3 == Then(p2, LAMBDA field : mustBeString(Get(filter, "equals"), "equals", field.a[1].s))
  IN Then(p3, LAMBDA u : Return(filter))

\* in (filter)
in(filter) ==
  LET p1 == mustBeNonEmptyObject(Get(filter, "in"), "in")
      p2 == Then(p1, LAMBDA field : onlyOneFieldAttribute(field, "in"))
      inValue == p2.value.a[1].s
      p3 == Then(p2, LAMBDA field : mustBeNonEmptyArray(Get(filter, "in"), "in", field.a[1].s))
  IN Then(p3, LAMBDA u :
       IF Some(Get(Get(filter, "in"), inValue).a, LAMBDA v : typeof(v) # "string")
         THEN Reject(BadRequestError("Array \"" \o inValue \o "\" in keyword \"in\" can only contain strings"))
         ELSE Return(OrOfEquals(inValue, Get(Get(filter, "in"), inValue))))

\* the number JavaScript names Infinity (and JSON.parse makes of 1e999): a
\* number above every other number of the model
Infinity == 1000

\* `high`, `low` and `error` of `range` before its forEach
NoBounds == [high |-> Num(Infinity), low |-> Num(0 - Infinity), error |-> NoError]

\* one turn of rangeValues.forEach(rangeType => ...)
RangeStep(st, rangeField, rangeType, value) ==
  LET isLt == rangeType \in {"lt", "lte"}
      isGt == rangeType \in {"gt", "gte"}
      afterLt ==
        IF ~isLt THEN st
        ELSE IF st.high # Num(Infinity)
          THEN [st EXCEPT !.error = BadRequestError("\"range." \o rangeField \o ":\" only 1 upper boundary allowed")]
          ELSE [st EXCEPT !.high = value]
  IN IF ~isGt THEN afterLt
     ELSE IF afterLt.low # Num(0 - Infinity)
       THEN [afterLt EXCEPT !.error = BadRequestError("\"range." \o rangeField \o ":\" only 1 lower boundary allowed")]
       ELSE [afterLt EXCEPT !.low = value]

RECURSIVE RangeScan(_, _, _, _)
\* rangeValues.forEach over the first n attributes of filter.range[rangeField]
RangeScan(bounds, rangeField, rangeValues, n) ==
  IF n = 0 THEN NoBounds
  ELSE RangeStep(RangeScan(bounds, rangeField, rangeValues, n - 1), rangeField,
                 rangeValues[n].s, Get(bounds, rangeValues[n].s))

\* high <= low
HighNotAboveLow(st) == st.high.n <= st.low.n

\* range (filter)
range(filter) ==
  LET p1 == mustBeNonEmptyObject(Get(filter, "range"), "range")
      p2 == Then(p1, LAMBDA field : onlyOneFieldAttribute(field, "range"))
      rangeField == p2.value.a[1].s
      bounds == Get(Get(filter, "range"), rangeField)
      p3 == Then(p2, LAMBDA field :
              mustBeNonEmptyObject(Get(Get(filter, "range"), field.a[1].s), "range." \o field.a[1].s))
  IN Then(p3, LAMBDA rangeValues :
       LET st == RangeScan(bounds, rangeField, rangeValues.a, Len(rangeValues.a))
       IN IF Some(rangeValues.a, LAMBDA v : v.s \notin {"gt", "lt", "gte", "lte"})
            THEN Reject(BadRequestError("\"range." \o rangeField \o "\" accepts only the following attributes : gt, gte, lt, lte"))
          ELSE IF Some(rangeValues.a, LAMBDA v : typeof(Get(bounds, v.s)) # "number")
            THEN Reject(BadRequestError("\"range." \o rangeField \o "." \o
                   rangeValues.a[FindIndex(rangeValues.a, LAMBDA v : typeof(Get(bounds, v.s)) # "number")].s
                   \o "\" must be a number"))
          ELSE IF st.error # NoError THEN Reject(st.error)
          ELSE IF HighNotAboveLow(st)
            THEN Reject(BadRequestError("\"range." \o rangeField \o ":\" lower boundary must be strictly inferior to the upper one"))
          ELSE Return(filter))

(***************************************************************************)
(* geoBoundingBox.  The helpers of ../util are not part of the sources at  *)
(* hand; they are modelled from their documented contracts.                *)
(***************************************************************************)
\* the camelCase form of a key of a geo-location object
CamelCase(k) ==
  CASE k = "top_left" -> "topLeft"
    [] k = "bottom_right" -> "bottomRight"
    [] k = "lat_lon" -> "latLon"
    [] OTHER -> k

\* geoLocationToCamelCase(obj), for an object
geoLocationToCamelCase(obj) ==
  IF obj.t = "object"
    THEN Obj([i \in 1..Len(obj.o) |-> <<CamelCase(obj.o[i][1]), obj.o[i][2]>>])
    ELSE obj

\* fieldsExist(obj, fields, type), without a regular expression
fieldsExist(obj, fields, type) ==
  \A i \in 1..Len(fields) : typeof(Get(obj, fields[i])) = type

\* the strings of the model that match RegexStringBoundingBox, with the two
\* numbers Number.parseFloat reads from the captured groups
StringPoints ==
  [s \in {"1, 2", "3,4", "0, 0", "-1,0"} |->
     CASE s = "1, 2" -> <<1, 2>>
       [] s = "3,4" -> <<3, 4>>
       [] s = "0, 0" -> <<0, 0>>
       [] s = "-1,0" -> <<-1, 0>>]

\* fieldsExist(bBox, ['bottomRight', 'topLeft'], 'string', RegexStringBoundingBox)
MatchesStringBoundingBox(bBox) ==
  /\ fieldsExist(bBox, <<"bottomRight", "topLeft">>, "string")
  /\ Get(bBox, "bottomRight").s \in DOMAIN StringPoints
  /\ Get(bBox, "topLeft").s \in DOMAIN StringPoints

\* { top, left, bottom, right }
bBoxFlat(bBox) ==
  Obj([i \in 1..4 |->
    LET v == <<"top", "left", "bottom", "right">>[i] IN <<v, Get(bBox, v)>>])

\* { topLeft: { lat, lon }, bottomRight: { lat, lon } }
bBoxFromObjects(bBox) ==
  Obj(<< <<"top", Get(Get(bBox, "topLeft"), "lat")>>,
         <<"left", Get(Get(bBox, "topLeft"), "lon")>>,
         <<"bottom", Get(Get(bBox, "bottomRight"), "lat")>>,
         <<"right", Get(Get(bBox, "bottomRight"), "lon")>> >>)

\* bBoxFromArrays with each corner read as [lon, lat]
bBoxFromArraysSwapped(bBox) ==
  Obj(<< <<"top", Get(bBox, "topLeft").a[2]>>,
         <<"left", Get(bBox, "topLeft").a[1]>>,
         <<"bottom", Get(bBox, "bottomRight").a[2]>>,
         <<"right", Get(bBox, "bottomRight").a[1]>> >>)

\* { topLeft: [ lat, lon ], bottomRight: [ lat, lon ] }
bBoxFromArrays(bBox) ==
  Obj(<< <<"top", Get(bBox, "topLeft").a[1]>>,
         <<"left", Get(bBox, "topLeft").a[2]>>,
         <<"bottom", Get(bBox, "bottomRight").a[1]>>,
         <<"right", Get(bBox, "bottomRight").a[2]>> >>)

\* { topLeft: "lat, lon", bottomRight: "lat, lon" }
bBoxFromStrings(bBox) ==
  Obj(<< <<"top", Num(StringPoints[Get(bBox, "topLeft").s][1])>>,
         <<"left", Num(StringPoints[Get(bBox, "topLeft").s][2])>>,
         <<"bottom", Num(StringPoints[Get(bBox, "bottomRight").s][1])>>,
         <<"right", Num(StringPoints[Get(bBox, "bottomRight").s][2])>> >>)

\* the cascade of accepted bounding box formats; {} when none matches
bBoxStandardized(bBox) ==
  IF fieldsExist(bBox, <<"top", "left", "bottom", "right">>, "number")
    THEN bBoxFlat(bBox)
  ELSE IF /\ fieldsExist(bBox, <<"bottomRight", "topLeft">>, "object")
          /\ fieldsExist(Get(bBox, "bottomRight"), <<"lat", "lon">>, "number")
          /\ fieldsExist(Get(bBox, "topLeft"), <<"lat", "lon">>, "number")
    THEN bBoxFromObjects(bBox)
  ELSE IF /\ fieldsExist(bBox, <<"bottomRight", "topLeft">>, "object")
          /\ isArray(Get(bBox, "bottomRight"))
          /\ isArray(Get(bBox, "topLeft"))
          /\ Len(Get(bBox, "bottomRight").a) = 2
          /\ Len(Get(bBox, "topLeft").a) = 2
          /\ \A i \in 1..2 : typeof(Get(bBox, "bottomRight").a[i]) = "number"
          /\ \A i \in 1..2 : typeof(Get(bBox, "topLeft").a[i]) = "number"
    THEN bBoxFromArrays(bBox)
  ELSE IF MatchesStringBoundingBox(bBox)
    THEN bBoxFromStrings(bBox)
  ELSE Obj(<<>>)

\* geoBoundingBox with its result under the keyword of the input, outside of
\* any `geospatial` node
geoBoundingBoxBare(filter) ==
  LET p1 == mustBeNonEmptyObject(Get(filter, "geoBoundingBox"), "geoBoundingBox")
      p2 == Then(p1, LAMBDA field : onlyOneFieldAttribute(field, "geoBoundingBox"))
  IN Then(p2, LAMBDA field :
       LET bBox == geoLocationToCamelCase(Get(Get(filter, "geoBoundingBox"), field.a[1].s))
           standardized == bBoxStandardized(bBox)
       IN IF ~truthy(Get(standardized, "top"))
            THEN Reject(BadRequestError("Unrecognized geo-point format in \"geoBoundingBox." \o field.a[1].s))
            ELSE Return(Obj1("geoBoundingBox", Obj1(field.a[1].s, standardized))))

\* geoBoundingBox (filter)
geoBoundingBox(filter) ==
  LET p1 == mustBeNonEmptyObject(Get(filter, "geoBoundingBox"), "geoBoundingBox")
      p2 == Then(p1, LAMBDA field : onlyOneFieldAttribute(field, "geoBoundingBox"))
  IN Then(p2, LAMBDA field :
       LET bBox == geoLocationToCamelCase(Get(Get(filter, "geoBoundingBox"), field.a[1].s))
           standardized == bBoxStandardized(bBox)
       IN IF ~truthy(Get(standardized, "top"))
            THEN Reject(BadRequestError("Unrecognized geo-point format in \"geoBoundingBox." \o field.a[1].s))
            ELSE Return(Obj1("geospatial", Obj1("geoBoundingBox", Obj1(field.a[1].s, standardized)))))

(***************************************************************************)
(* regexp, geoDistance, geoDistanceRange, geoPolygon.                      *)
(***************************************************************************)
\* the patterns of the model that `new RegExp` refuses to compile
InvalidPatterns == {"(", "["}

\* the flag strings of the model that `new RegExp` refuses
InvalidFlags == {"x", "gg"}

\* String(v), the pattern `new RegExp(v)` compiles for a value v
PatternOf(v) ==
  CASE v.t = "string" -> v.s
    [] v.t = "object" -> "[object Object]"
    [] v.t = "array" -> IF Len(v.a) = 1 /\ v.a[1].t = "string" THEN v.a[1].s ELSE "a,b"
    [] OTHER -> "1"

\* new RegExp(value, flags) does not throw: the flags are undefined, or
\* String(flags) is a flag string, which String(null), String(0) and
\* String(false) are not
RegExpCompiles(value, flags) ==
  /\ PatternOf(value) \notin InvalidPatterns
  /\ \/ flags = Undefined
     \/ flags.t = "string" /\ flags.s \notin InvalidFlags

\* regexp (filter)
regexp(filter) ==
  LET p1 == mustBeNonEmptyObject(Get(filter, "regexp"), "regexp")
      p2 == Then(p1, LAMBDA field : onlyOneFieldAttribute(field, "regexp"))
      regexpField == p2.value.a[1].s
      body == Get(Get(filter, "regexp"), regexpField)
      p3 == Then(p2, LAMBDA field :
              mustBeNonEmptyObject(Get(Get(filter, "regexp"), field.a[1].s), "regexp." \o field.a[1].s))
      p4 == Then(p3, LAMBDA regexpValues :
              IF Some(regexpValues.a, LAMBDA v : v.s \notin {"flags", "value"})
                THEN Reject(BadRequestError("Keyword \"regexp\" can only contain the following attributes: flags, value"))
                ELSE requireAttribute(body, "regexp", "value"))
      p5 == Then(p4, LAMBDA u :
              IF truthy(Get(body, "flags"))
                THEN mustBeString(body, "regexp", "flags")
                ELSE Resolve(Undefined))
  IN Then(p5, LAMBDA u :
       IF ~RegExpCompiles(Get(body, "value"), Get(body, "flags"))
         THEN Reject(BadRequestError("Invalid regular expression \"" \o PatternOf(Get(body, "value")) \o "\""))
         ELSE Return(filter))

\* convertGeopoint(point): {lat, lon}, or null for an unrecognized format
convertGeopoint(point) ==
  LET p == IF point.t = "object" THEN geoLocationToCamelCase(point) ELSE point
  IN IF p.t = "object" /\ fieldsExist(p, <<"lat", "lon">>, "number")
       THEN Obj2("lat", Get(p, "lat"), "lon", Get(p, "lon"))
     ELSE IF p.t = "object" /\ Get(p, "latLon").t \in {"object", "array", "string"}
       THEN LET q == Get(p, "latLon")
            IN IF q.t = "object" /\ fieldsExist(q, <<"lat", "lon">>, "number")
                 THEN Obj2("lat", Get(q, "lat"), "lon", Get(q, "lon"))
               ELSE IF q.t = "array" /\ Len(q.a) = 2 /\ \A i \in 1..2 : q.a[i].t = "number"
                 THEN Obj2("lat", q.a[1], "lon", q.a[2])
               ELSE IF q.t = "string" /\ q.s \in DOMAIN StringPoints
                 THEN Obj2("lat", Num(StringPoints[q.s][1]), "lon", Num(StringPoints[q.s][2]))
               ELSE Null
     ELSE IF p.t = "array" /\ Len(p.a) = 2 /\ \A i \in 1..2 : p.a[i].t = "number"
       THEN Obj2("lat", p.a[1], "lon", p.a[2])
     ELSE IF p.t = "string" /\ p.s \in DOMAIN StringPoints
       THEN Obj2("lat", Num(StringPoints[p.s][1]), "lon", Num(StringPoints[p.s][2]))
     ELSE Null

\* the distance strings of the model that convertDistance accepts, in metres
Distances ==
  [s \in {"1m", "2m", "1km"} |->
     CASE s = "1m" -> 1 [] s = "2m" -> 2 [] s = "1km" -> 1000]

\* convertDistance(distance): a number of metres, or an exception
convertDistance(distance) ==
  IF distance.t = "string" /\ distance.s \in DOMAIN Distances
    THEN Return(Num(Distances[distance.s]))
    ELSE Throw(BadRequestError("unable to parse distance value \"" \o distance.s \o "\""))

\* geoDistance (filter)
geoDistance(filter) ==
  LET body == Get(filter, "geoDistance")
      p1 == mustBeNonEmptyObject(body, "geoDistance")
      p2 == Then(p1, LAMBDA fields :
              IF Len(fields.a) # 2 \/ ~Includes(fields.a, Str("distance"))
                THEN Reject(BadRequestError("\"geoDistance\" keyword requires a document field and a \"distance\" attribute"))
                ELSE mustBeString(body, "geoDistance", "distance"))
  IN Then(p2, LAMBDA u :
       LET keys == ObjectKeys(body)
           docField == keys[FindIndex(keys, LAMBDA f : f # "distance")]
           point == convertGeopoint(Get(body, docField))
           distance == convertDistance(Get(body, "distance"))
       IN IF point = Null
            THEN Reject(BadRequestError("geoDistance." \o docField \o ": unrecognized point format"))
          ELSE IF distance.kind = "thrown" THEN Reject(distance.error)
          ELSE Return(Obj1("geospatial", Obj1("geoDistance", Obj1(docField,
                 Obj(<< <<"lat", Get(point, "lat")>>, <<"lon", Get(point, "lon")>>,
                        <<"distance", distance.value>> >>))))))

\* geoDistanceRange with an inner radius equal to the outer radius let through
geoDistanceRangeOfEqual(filter) ==
  LET body == Get(filter, "geoDistanceRange")
      p1 == mustBeNonEmptyObject(body, "geoDistanceRange")
      p2 == Then(p1, LAMBDA fields :
              IF Len(fields.a) # 3 \/ ~Includes(fields.a, Str("from")) \/ ~Includes(fields.a, Str("to"))
                THEN Reject(BadRequestError("\"geoDistanceRange\" keyword requires a document field and the following attributes: \"from\", \"to\""))
                ELSE mustBeString(body, "geoDistanceRange", "from"))
      p3 == Then(p2, LAMBDA u : mustBeString(body, "geoDistanceRange", "to"))
  IN Then(p3, LAMBDA u :
       LET keys == ObjectKeys(body)
           docField == keys[FindIndex(keys, LAMBDA f : f # "from" /\ f # "to")]
           point == convertGeopoint(Get(body, docField))
           from == convertDistance(Get(body, "from"))
           to == convertDistance(Get(body, "to"))
       IN IF point = Null
            THEN Reject(BadRequestError("geoDistanceRange." \o docField \o ": unrecognized point format"))
          ELSE IF from.kind = "thrown" THEN Reject(from.error)
          ELSE IF to.kind = "thrown" THEN Reject(to.error)
          ELSE IF from.value.n > to.value.n
            THEN Reject(BadRequestError("geoDistanceRange." \o docField \o ": inner radius must be smaller than outer radius"))
          ELSE Return(Obj1("geospatial", Obj1("geoDistanceRange", Obj1(docField,
                 Obj(<< <<"lat", Get(point, "lat")>>, <<"lon", Get(point, "lon")>>,
                        <<"from", from.value>>, <<"to", to.value>> >>))))))

\* geoDistanceRange (filter)
geoDistanceRange(filter) ==
  LET body == Get(filter, "geoDistanceRange")
      p1 == mustBeNonEmptyObject(body, "geoDistanceRange")
      p2 == Then(p1, LAMBDA fields :
              IF Len(fields.a) # 3 \/ ~Includes(fields.a, Str("from")) \/ ~Includes(fields.a, Str("to"))
                THEN Reject(BadRequestError("\"geoDistanceRange\" keyword requires a document field and the following attributes: \"from\", \"to\""))
                ELSE mustBeString(body, "geoDistanceRange", "from"))
      p3 == Then(p2, LAMBDA u : mustBeString(body, "geoDistanceRange", "to"))
  IN Then(p3, LAMBDA u :
       LET keys == ObjectKeys(body)
           docField == keys[FindIndex(keys, LAMBDA f : f # "from" /\ f # "to")]
           point == convertGeopoint(Get(body, docField))
           from == convertDistance(Get(body, "from"))
           to == convertDistance(Get(body, "to"))
       IN IF point = Null
            THEN Reject(BadRequestError("geoDistanceRange." \o docField \o ": unrecognized point format"))
          ELSE IF from.kind = "thrown" THEN Reject(from.error)
          ELSE IF to.kind = "thrown" THEN Reject(to.error)
          ELSE IF from.value.n >= to.value.n
            THEN Reject(BadRequestError("geoDistanceRange." \o docField \o ": inner radius must be smaller than outer radius"))
          ELSE Return(Obj1("geospatial", Obj1("geoDistanceRange", Obj1(docField,
                 Obj(<< <<"lat", Get(point, "lat")>>, <<"lon", Get(point, "lon")>>,
                        <<"from", from.value>>, <<"to", to.value>> >>))))))

\* geoPolygon with two points enough to build a polygon
geoPolygonOfTwo(filter) ==
  LET p1 == mustBeNonEmptyObject(Get(filter, "geoPolygon"), "geoPolygon")
      p2 == Then(p1, LAMBDA fields : onlyOneFieldAttribute(fields, "geoBoundingBox"))
      docField == p2.value.a[1].s
      body == Get(Get(filter, "geoPolygon"), docField)
      p3 == Then(p2, LAMBDA fields : requireAttribute(body, "geoPolygon." \o docField, "points"))
      p4 == Then(p3, LAMBDA u : mustBeNonEmptyArray(body, "geoPolygon." \o docField, "points"))
  IN Then(p4, LAMBDA u :
       LET points == Get(body, "points").a
           converted == [i \in 1..Len(points) |-> convertGeopoint(points[i])]
       IN IF Len(points) < 2
            THEN Reject(BadRequestError("\"geoPolygon." \o docField \o "\": at least 3 points are required to build a polygon"))
          ELSE IF Some(converted, LAMBDA q : q = Null)
            THEN Reject(BadRequestError("geoPolygon." \o docField \o ": unrecognized point format (" \o
                   IndexName(FindIndex(converted, LAMBDA q : q = Null) - 1) \o ")"))
          ELSE Return(Obj1("geospatial", Obj1("geoPolygon", Obj1(docField,
                 Arr([i \in 1..Len(points) |->
                   Arr(<<Get(converted[i], "lat"), Get(converted[i], "lon")>>)]))))))

\* geoPolygon (filter)
geoPolygon(filter) ==
  LET p1 == mustBeNonEmptyObject(Get(filter, "geoPolygon"), "geoPolygon")
      p2 == Then(p1, LAMBDA fields : onlyOneFieldAttribute(fields, "geoBoundingBox"))
      docField == p2.value.a[1].s
      body == Get(Get(filter, "geoPolygon"), docField)
      p3 == Then(p2, LAMBDA fields : requireAttribute(body, "geoPolygon." \o docField, "points"))
      p4 == Then(p3, LAMBDA u : mustBeNonEmptyArray(body, "geoPolygon." \o docField, "points"))
  IN Then(p4, LAMBDA u :
       LET points == Get(body, "points").a
           converted == [i \in 1..Len(points) |-> convertGeopoint(points[i])]
       IN IF Len(points) < 3
            THEN Reject(BadRequestError("\"geoPolygon." \o docField \o "\": at least 3 points are required to build a polygon"))
          ELSE IF Some(converted, LAMBDA q : q = Null)
            THEN Reject(BadRequestError("geoPolygon." \o docField \o ": unrecognized point format (" \o
                   IndexName(FindIndex(converted, LAMBDA q : q = Null) - 1) \o ")"))
          ELSE Return(Obj1("geospatial", Obj1("geoPolygon", Obj1(docField,
                 Arr([i \in 1..Len(points) |->
                   Arr(<<Get(converted[i], "lat"), Get(converted[i], "lon")>>)]))))))

(***************************************************************************)
(* Boolean combinators and the entry point.                                *)
(***************************************************************************)
\* ToInt32 of an operand of `&`
ToInt32(v) ==
  CASE v.t = "boolean" -> IF v.b THEN 1 ELSE 0
    [] v.t = "number" -> v.n
    [] OTHER -> 0

\* a & b, for operands that convert to 0 or 1
BitAnd(a, b) == Num(ToInt32(a) * ToInt32(b))

\* obj[k] = v: the key keeps its place, a new key goes last
Set(obj, k, v) ==
  IF \E i \in 1..Len(obj.o) : obj.o[i][1] = k
    THEN Obj([i \in 1..Len(obj.o) |-> IF obj.o[i][1] = k THEN <<k, v>> ELSE obj.o[i]])
    ELSE Obj(Append(obj.o, <<k, v>>))

\* concat with the elements of an array argument put before those of the
\* array
ConcatBefore(array, x) == IF isArray(x) THEN Arr(x.a \o array.a) ELSE Arr(Append(array.a, x))

\* array.concat(x): an array argument is spread, any other value is appended
Concat(array, x) == IF isArray(x) THEN Arr(array.a \o x.a) ELSE Arr(Append(array.a, x))

\* Object.keys(v)[0]
FirstKey(v) == IF Len(ObjectKeys(v)) = 0 THEN Undefined ELSE Str(ObjectKeys(v)[1])

\* an element of the array given to _standardizeFilterArray that its
\* findIndex callback reports: not a non-array, non-empty object
NotAFilter(v) == typeof(v) # "object" \/ isArray(v) \/ Len(ObjectKeys(v)) = 0

\* Fold with the elements of a same-operand child assigned to the result
\* instead of concatenated to it
FoldAssigning(result, sub, operand) ==
  IF sub \in {Null, Undefined} THEN Throw(KeysOfNullish)
  ELSE IF FirstKey(sub) = Str(operand)
    THEN Return(Set(Set(result, "_isLeaf", BitAnd(Get(result, "_isLeaf"), Get(sub, "_isLeaf"))),
                    operand, Get(sub, operand)))
  ELSE IF FirstKey(sub) \in {Str("and"), Str("or")}
    THEN Return(Set(Set(result, operand, Arr(Append(Get(result, operand).a, sub))),
                    "_isLeaf", Bool(FALSE)))
  ELSE Return(Set(result, operand, Arr(Append(Get(result, operand).a, sub))))

\* the callback of Promise.reduce in _standardizeFilterArray: `result` after
\* the standardized element `sub` has been folded in
Fold(result, sub, operand) ==
  IF sub \in {Null, Undefined} THEN Throw(KeysOfNullish)
  ELSE IF FirstKey(sub) = Str(operand)
    THEN Return(Set(Set(result, "_isLeaf", BitAnd(Get(result, "_isLeaf"), Get(sub, "_isLeaf"))),
                    operand, Concat(Get(result, operand), Get(sub, operand))))
  ELSE IF FirstKey(sub) \in {Str("and"), Str("or")}
    THEN Return(Set(Set(result, operand, Arr(Append(Get(result, operand).a, sub))),
                    "_isLeaf", Bool(FALSE)))
  ELSE Return(Set(result, operand, Arr(Append(Get(result, operand).a, sub))))

RECURSIVE Reduce(_, _, _)
\* Promise.reduce over the first n standardized elements: the elements are
\* awaited and folded one after the other, from the left
Reduce(subs, operand, n) ==
  IF n = 0 THEN Resolve(Obj2(operand, Arr(<<>>), "_isLeaf", Bool(TRUE)))
  ELSE LET acc == Reduce(subs, operand, n - 1)
       IN IF acc.kind # "fulfilled" THEN acc
          ELSE IF subs[n].kind = "rejected" THEN subs[n]
          ELSE Settled(Fold(acc.value, subs[n].value, operand))

\* Promise.reduce over `subs`, the completions of the calls map makes, and
\* the callback of its `then`: map stops at the first call that throws, and
\* the result is its only element or itself
Reduced(subs, operand) ==
  IF Some(subs, LAMBDA c : c.kind = "thrown")
    THEN subs[FindIndex(subs, LAMBDA c : c.kind = "thrown")]
    ELSE Then(Reduce(subs, operand, Len(subs)), LAMBDA r :
           IF Len(Get(r, operand).a) = 1 THEN Return(Get(r, operand).a[1]) ELSE Return(r))

\* the members of a Standardizer that are not DSL keywords, and what a call
\* this[name](filters) makes of each
OtherMembers == {"standardize", "_standardizeFilterArray", "constructor", "toString", "hasOwnProperty"}

\* this[name](filters) for a member that is not a DSL keyword
CallOtherMember(name, f) ==
  CASE name = "standardize" -> Throw(RangeError("Maximum call stack size exceeded"))
    [] name = "_standardizeFilterArray" -> Throw(KeysOfNullish)
    [] name = "constructor" ->
         Throw(TypeError("Class constructor Standardizer cannot be invoked without 'new'"))
    [] name = "toString" -> Return(Str("[object Object]"))
    [] name = "hasOwnProperty" -> Return(Bool(FALSE))

\* the DSL keywords: the methods of Standardizer that validate a filter
Keywords ==
  {"exists", "missing", "ids", "range", "regexp", "equals", "in", "geoBoundingBox",
   "geoDistance", "geoDistanceRange", "geoPolygon", "and", "or", "not", "bool"}

\* the checks of not (filter) that come before this.standardize(filter.not)
notChecks(filter) ==
  LET p1 == mustBeNonEmptyObject(Get(filter, "not"), "not")
      p2 == Then(p1, LAMBDA fields : onlyOneFieldAttribute(fields, "not"))
  IN Then(p2, LAMBDA fields :
       IF fields.a[1].s \in {"and", "or"}
         THEN mustBeNonEmptyArray(Get(filter, "not"), "not", fields.a[1].s)
         ELSE mustBeNonEmptyObject(Get(Get(filter, "not"), fields.a[1].s), "not." \o fields.a[1].s))

RECURSIVE standardize(_), standardizeFilterArray(_, _), and(_), or(_), not(_), bool(_)

\* _standardizeFilterArray (filter, operand)
standardizeFilterArray(filter, operand) ==
  LET list == Get(filter, operand).a
      idx == FindIndex(list, LAMBDA v : v = Null \/ NotAFilter(v))
  IN IF idx > 0 /\ list[idx] = Null THEN Throw(KeysOfNullish)
     ELSE IF idx > 0
       THEN Reject(BadRequestError("\"" \o operand \o "\" operand can only contain non-empty objects"))
     ELSE Only({Reduced(subs, operand) :
                  subs \in {[i \in 1..Len(list) |-> standardize(list[i])]}})

\* and (filter, keyword), with `keyword = keyword || 'and'` already applied:
\* no caller passes a keyword
and(filter) ==
  Then(mustBeNonEmptyArray(filter, "and", "and"),
       LAMBDA u : standardizeFilterArray(filter, "and"))

\* or (filter, keyword), with `keyword = keyword || 'or'` already applied
or(filter) ==
  Then(mustBeNonEmptyArray(filter, "or", "or"),
       LAMBDA u : standardizeFilterArray(filter, "or"))

\* not with the standardized expression returned without its wrapper
notUnwrapped(filter) ==
  Then(notChecks(filter), LAMBDA u : standardize(Get(filter, "not")))

\* not (filter)
not(filter) ==
  Then(Then(notChecks(filter),
            LAMBDA u : standardize(Get(filter, "not"))),
       LAMBDA result : Return(Obj1("not", result)))

\* AndConcat with a missing standardized.and read as an empty list
AndConcatOntoAny(standardized, x) ==
  IF standardized \in {Null, Undefined} THEN Throw(ReadOfNullish("and"))
  ELSE IF standardized.t # "object" THEN Throw(ReadOfNullish("concat"))
  ELSE Return(Set(Set(standardized, "and",
                      Concat(IF Get(standardized, "and") \in {Null, Undefined}
                               THEN Arr(<<>>) ELSE Get(standardized, "and"), x)),
                  "_isLeaf", Bool(FALSE)))

\* standardized.and = standardized.and.concat(x); standardized._isLeaf = false
AndConcat(standardized, x) ==
  IF standardized \in {Null, Undefined} THEN Throw(ReadOfNullish("and"))
  ELSE IF Get(standardized, "and") \in {Null, Undefined} THEN Throw(ReadOfNullish("concat"))
  ELSE Return(Set(Set(standardized, "and", Concat(Get(standardized, "and"), x)),
                  "_isLeaf", Bool(FALSE)))

\* what a callback of `bool` hands to the next one: the promise of the next
\* attribute's standardization, with the value `standardized` has by then
Carry(standardized, p) ==
  IF p.kind = "fulfilled" THEN Resolve([standardized |-> standardized, f |-> p.value]) ELSE p

\* the first callback of `bool` with `must` standardized before the
\* attributes are looked at
BoolMustFirst(b, fields) ==
  IF truthy(Get(b, "must")) /\ and(Obj1("and", Get(b, "must"))).kind # "fulfilled"
    THEN and(Obj1("and", Get(b, "must")))
  ELSE IF \E i \in 1..Len(fields.a) : fields.a[i].s \notin {"must", "must_not", "should", "should_not"}
    THEN Reject(BadRequestError("\"bool\" operand accepts only the following attributes: must, must_not, should, should_not"))
  ELSE IF truthy(Get(b, "must")) THEN and(Obj1("and", Get(b, "must")))
  ELSE Resolve(Null)

\* first callback of `bool`: the accepted attributes, then `must`
BoolMust(b, fields) ==
  IF \E i \in 1..Len(fields.a) : fields.a[i].s \notin {"must", "must_not", "should", "should_not"}
    THEN Reject(BadRequestError("\"bool\" operand accepts only the following attributes: must, must_not, should, should_not"))
  ELSE IF truthy(Get(b, "must")) THEN and(Obj1("and", Get(b, "must")))
  ELSE Resolve(Null)

\* second callback of `bool`: `standardized = f`, then `must_not`
BoolMustNot(b, f) ==
  Carry(IF truthy(f) THEN f ELSE Obj2("and", Arr(<<>>), "_isLeaf", Bool(TRUE)),
        IF truthy(Get(b, "must_not")) THEN or(Obj1("or", Get(b, "must_not"))) ELSE Resolve(Null))

\* third callback of `bool`: {not: f} joins standardized.and, then `should`
BoolShould(b, st) ==
  LET c == IF truthy(st.f) THEN AndConcat(st.standardized, Obj1("not", st.f))
           ELSE Return(st.standardized)
  IN IF c.kind = "thrown" THEN c
     ELSE Carry(c.value,
                IF truthy(Get(b, "should")) THEN or(Obj1("or", Get(b, "should"))) ELSE Resolve(Null))

\* fourth callback of `bool`: f joins standardized.and, then `should_not`
BoolShouldNot(b, st) ==
  LET c == IF truthy(st.f) THEN AndConcat(st.standardized, st.f)
           ELSE Return(st.standardized)
  IN IF c.kind = "thrown" THEN c
     ELSE Carry(c.value,
                IF truthy(Get(b, "should_not")) THEN and(Obj1("and", Get(b, "should_not"))) ELSE Resolve(Null))

\* the last callback of `bool`: {not: f} joins standardized.and; the result
\* is the only element of standardized.and, or standardized itself
BoolResult(st) ==
  LET c == IF truthy(st.f) THEN AndConcat(st.standardized, Obj1("not", st.f))
           ELSE Return(st.standardized)
  IN IF c.kind = "thrown" THEN c
     ELSE IF Get(c.value, "and") \in {Null, Undefined} THEN Throw(ReadOfNullish("length"))
     ELSE IF Len(Get(c.value, "and").a) = 1 THEN Return(Get(c.value, "and").a[1])
     ELSE Return(c.value)

\* bool (filter)
bool(filter) ==
  Only({Then(p5, LAMBDA st : BoolResult(st)) :
    p5 \in {Then(p4, LAMBDA st : BoolShouldNot(Get(filter, "bool"), st)) :
      p4 \in {Then(p3, LAMBDA st : BoolShould(Get(filter, "bool"), st)) :
        p3 \in {Then(p2, LAMBDA f : BoolMustNot(Get(filter, "bool"), f)) :
          p2 \in {Then(p1, LAMBDA fields : BoolMust(Get(filter, "bool"), fields)) :
            p1 \in {mustBeNonEmptyObject(Get(filter, "bool"), "bool")}}}}}})

\* this[keyword](filters) for a DSL keyword
Dispatch(keyword, f) ==
  CASE keyword = "exists" -> exists(f)
    [] keyword = "missing" -> missing(f)
    [] keyword = "ids" -> ids(f)
    [] keyword = "range" -> range(f)
    [] keyword = "regexp" -> regexp(f)
    [] keyword = "equals" -> equals(f)
    [] keyword = "in" -> in(f)
    [] keyword = "geoBoundingBox" -> geoBoundingBox(f)
    [] keyword = "geoDistance" -> geoDistance(f)
    [] keyword = "geoDistanceRange" -> geoDistanceRange(f)
    [] keyword = "geoPolygon" -> geoPolygon(f)
    [] keyword = "and" -> and(f)
    [] keyword = "or" -> or(f)
    [] keyword = "not" -> not(f)
    [] keyword = "bool" -> bool(f)

\* standardize with `keywords.length !== 1` as its test of the syntax: a
\* filter of no key is refused as one of several keys is
standardizeOneKey(f) ==
  LET keywords == IF truthy(f) THEN ObjectKeys(f) ELSE <<>>
  IN IF Len(keywords) # 1 THEN Reject(BadRequestError("Invalid filter syntax"))
     ELSE IF keywords[1] \in Keywords THEN Dispatch(keywords[1], f)
     ELSE IF keywords[1] \in OtherMembers THEN CallOtherMember(keywords[1], f)
     ELSE Reject(BadRequestError("Unknown DSL keyword: " \o keywords[1]))

\* standardize (filters)
standardize(f) ==
  LET keywords == IF truthy(f) THEN ObjectKeys(f) ELSE <<>>
  IN IF Len(keywords) = 0 THEN Resolve(Obj(<<>>))
     ELSE IF Len(keywords) > 1 THEN Reject(BadRequestError("Invalid filter syntax"))
     ELSE IF keywords[1] \in Keywords THEN Dispatch(keywords[1], f)
     ELSE IF keywords[1] \in OtherMembers THEN CallOtherMember(keywords[1], f)
     ELSE Reject(BadRequestError("Unknown DSL keyword: " \o keywords[1]))

(***************************************************************************)
(* The objects a call writes to.  A value says nothing of the object that  *)
(* holds it, so the objects are followed apart from the values: the origin *)
(* of a returned object tells whether it is an object of the caller's tree *)
(* (`input`) and gives the origins of the elements of its and/or list      *)
(* (`of`); a trace is the origin of the value a call returns together with *)
(* `wrote`, whether the call has assigned to an object of the caller's     *)
(* tree.                                                                   *)
(***************************************************************************)
\* an object made by a literal or by a function outside of this file
Made == [input |-> FALSE, of |-> <<>>]

\* the `filter` argument itself, as exists, range, regexp and equals return it
Given == [input |-> TRUE, of |-> <<>>]

\* the trace of a call that returns an object it made and writes to no other
NoTrace == [origin |-> Made, wrote |-> FALSE]

\* the keywords whose method returns its `filter` argument
Passthrough == {"exists", "range", "regexp", "equals"}

RECURSIVE Trace(_), TraceArray(_, _), TraceBool(_), Folded(_, _, _)

\* the callback of Promise.reduce, for the origins: concat makes a new list
\* of the elements of sub[operand], push adds the standardized element
\* itself; `t` is the trace of the call that returned `sub`.  map stops at
\* an element whose call throws (`halted`)
FoldTrace(acc, sub, t, operand) ==
  IF acc.halted THEN acc
  ELSE [of |-> IF sub.kind = "fulfilled" /\ FirstKey(sub.value) = Str(operand)
                 THEN acc.of \o t.origin.of
                 ELSE Append(acc.of, t.origin),
        wrote |-> acc.wrote \/ t.wrote,
        halted |-> sub.kind = "thrown"]

\* the origins of the elements of result[operand] after the first n elements
\* of `list` have been standardized and folded, and whether one of the n
\* calls wrote to the tree given
Folded(list, operand, n) ==
  IF n = 0 THEN [of |-> <<>>, wrote |-> FALSE, halted |-> FALSE]
  ELSE Only({FoldTrace(acc, sub, t, operand) :
               acc \in {Folded(list, operand, n - 1)},
               sub \in {standardize(list[n])},
               t \in {Trace(list[n])}})

\* the origin of what _standardizeFilterArray and `bool` return: the only
\* element of the list, or the object that holds the list
Unwrapped(tr) ==
  [origin |-> IF Len(tr.of) = 1 THEN tr.of[1] ELSE [input |-> FALSE, of |-> tr.of],
   wrote |-> tr.wrote]

\* the trace of ids and of `in`: the `or` they return is a list of objects
\* that map makes
MadeList(p) ==
  IF p.kind # "fulfilled" THEN NoTrace
  ELSE [origin |-> [input |-> FALSE, of |-> [i \in 1..Len(Get(p.value, "or").a) |-> Made]],
        wrote |-> FALSE]

\* the trace of and (filter) and of or (filter): `result` and its list are
\* objects of the call, the only writes are those of the elements' calls
TraceArray(filter, operand) ==
  IF mustBeNonEmptyArray(filter, operand, operand).kind # "fulfilled" THEN NoTrace
  ELSE IF \E i \in 1..Len(Get(filter, operand).a) :
            Get(filter, operand).a[i] = Null \/ NotAFilter(Get(filter, operand).a[i])
    THEN NoTrace
  ELSE Only({Unwrapped(tr) :
               tr \in {Folded(Get(filter, operand).a, operand, Len(Get(filter, operand).a))}})

\* the trace of this.and or this.or on the attribute `name` of `bool`, when
\* the attribute is truthy
TraceAttribute(b, name, operand) ==
  IF truthy(Get(b, name)) THEN TraceArray(Obj1(operand, Get(b, name)), operand) ELSE NoTrace

\* `bool` at the return of one of its callbacks: `p` is the promise the
\* callback returns, `standardized` the origin of the object of that name,
\* `f` the origin of the value of `p`, and `wrote` whether the tree given
\* has been written to
Step(p, standardized, f, wrote) ==
  [p |-> p, standardized |-> standardized, f |-> f, wrote |-> wrote]

\* the promise of a chain that a callback has rejected or thrown in: the later
\* callbacks are not run, and nothing else of it is read here
Broken == Reject(TypeError(""))

\* a step extended by the call of this.and or this.or on the attribute
\* `name` of `bool`
Calling(p, standardized, wrote, b, name, operand) ==
  Only({Step(p, standardized, called.origin, wrote \/ called.wrote) :
          called \in {TraceAttribute(b, name, operand)}})

\* `bool` at the return of its first callback: `must`
AfterMust(b, p) ==
  IF p.kind # "fulfilled" THEN Step(p, Made, Made, FALSE)
  ELSE IF \E i \in 1..Len(p.value.a) :
            p.value.a[i].s \notin {"must", "must_not", "should", "should_not"}
    THEN Step(Broken, Made, Made, FALSE)
  ELSE Calling(BoolMust(b, p.value), Made, FALSE, b, "must", "and")

\* `bool` at the return of its second callback: `standardized = f` for a
\* truthy f, then `must_not`
AfterMustNot(b, s) ==
  IF s.p.kind # "fulfilled" THEN s
  ELSE Calling(BoolMustNot(b, s.p.value),
               IF truthy(s.p.value) THEN s.f ELSE Made,
               s.wrote, b, "must_not", "or")

\* a callback of `bool` gets past its `if (f)` block: f is falsy, or
\* standardized.and.concat(x) does not throw
Joins(st, x) == ~truthy(st.f) \/ AndConcat(st.standardized, x).kind # "thrown"

\* the origin of `standardized` after its `and` has been assigned the list
\* concat returns, x of origin `ox` its last element
Joined(standardized, st, ox) ==
  IF truthy(st.f)
    THEN [input |-> standardized.input, of |-> Append(standardized.of, ox)]
    ELSE standardized

\* standardized.and = standardized.and.concat(x); standardized._isLeaf = false
\* assign to the object `standardized` is: to an object of the tree given,
\* when `must` returned one
Writes(standardized, st) == truthy(st.f) /\ standardized.input

\* `bool` at the return of its third callback: {not: f} joins
\* `standardized`, then `should`
AfterShould(b, s) ==
  IF s.p.kind # "fulfilled" THEN s
  ELSE IF ~Joins(s.p.value, Obj1("not", s.p.value.f))
    THEN Step(Broken, s.standardized, Made, s.wrote)
  ELSE Calling(Settled(BoolShould(b, s.p.value)),
               Joined(s.standardized, s.p.value, Made),
               s.wrote \/ Writes(s.standardized, s.p.value),
               b, "should", "or")

\* `bool` at the return of its fourth callback: f joins `standardized`, then
\* `should_not`
AfterShouldNot(b, s) ==
  IF s.p.kind # "fulfilled" THEN s
  ELSE IF ~Joins(s.p.value, s.p.value.f)
    THEN Step(Broken, s.standardized, Made, s.wrote)
  ELSE Calling(Settled(BoolShouldNot(b, s.p.value)),
               Joined(s.standardized, s.p.value, s.f),
               s.wrote \/ Writes(s.standardized, s.p.value),
               b, "should_not", "and")

\* `bool` at the return of its last callback: {not: f} joins
\* `standardized`; the result is standardized.and[0] or `standardized`
AfterAll(s) ==
  IF s.p.kind # "fulfilled" THEN [origin |-> Made, wrote |-> s.wrote]
  ELSE IF ~Joins(s.p.value, Obj1("not", s.p.value.f))
    THEN [origin |-> Made, wrote |-> s.wrote]
  ELSE [origin |-> IF Len(Joined(s.standardized, s.p.value, Made).of) = 1
                     THEN Joined(s.standardized, s.p.value, Made).of[1]
                     ELSE Joined(s.standardized, s.p.value, Made),
        wrote |-> s.wrote \/ Writes(s.standardized, s.p.value)]

\* the trace of bool (filter), for b = filter.bool
TraceBool(b) ==
  Only({AfterAll(s4) :
    s4 \in {AfterShouldNot(b, s3) :
      s3 \in {AfterShould(b, s2) :
        s2 \in {AfterMustNot(b, s1) :
          s1 \in {AfterMust(b, p) : p \in {mustBeNonEmptyObject(b, "bool")}}}}}})

\* the trace of standardize (filters)
Trace(f) ==
  IF Len(IF truthy(f) THEN ObjectKeys(f) ELSE <<>>) # 1 THEN NoTrace
  ELSE IF ObjectKeys(f)[1] \in Passthrough THEN [origin |-> Given, wrote |-> FALSE]
  ELSE IF ObjectKeys(f)[1] \in {"ids", "in"} THEN Only({MadeList(p) : p \in {standardize(f)}})
  ELSE IF ObjectKeys(f)[1] \in {"and", "or"} THEN TraceArray(f, ObjectKeys(f)[1])
  ELSE IF ObjectKeys(f)[1] = "bool" THEN TraceBool(Get(f, "bool"))
  ELSE IF ObjectKeys(f)[1] = "not" /\ notChecks(f).kind = "fulfilled"
    THEN [origin |-> Made, wrote |-> Trace(Get(f, "not")).wrote]
  ELSE NoTrace

(***************************************************************************)
(* The state machine: one call of standardize on a filter of the bounded   *)
(* input set.                                                              *)
(***************************************************************************)
\* the largest number of nodes (keywords and leaf predicates) of a filter of
\* the boolean family
MaxSize == 4

\* the leaf predicates of the boolean family
Leaves ==
  {Obj1("exists", Obj1("field", Str("a"))), Obj1("exists", Obj1("field", Str("b")))}

\* the compositions of m into four parts, one per attribute of bool
Splits(m) ==
  {ms \in [1..4 -> 0..m] : ms[1] + ms[2] + ms[3] + ms[4] = m}

\* {must, must_not, should, should_not}, an attribute given as Undefined
\* being left out
BoolObject(must, mustNot, should, shouldNot) ==
  Obj(SelectSeq(<< <<"must", must>>, <<"must_not", mustNot>>,
                   <<"should", should>>, <<"should_not", shouldNot>> >>,
                LAMBDA kv : kv[2] # Undefined))

\* the values of one attribute of bool that hold m nodes: left out, a list of
\* filters, or (counted as one node) a value that is not a list
AttributeValues(L, others, m) ==
  IF m = 0 THEN {Undefined}
  ELSE {Arr(l) : l \in L[m]} \cup (IF m = 1 THEN others ELSE {})

\* the bool filters whose attributes hold m nodes
Bools(L, others, m) ==
  UNION {{Obj1("bool", BoolObject(v1, v2, v3, v4)) :
            v1 \in AttributeValues(L, others, ms[1]),
            v2 \in AttributeValues(L, others, ms[2]),
            v3 \in AttributeValues(L, others, ms[3]),
            v4 \in AttributeValues(L, others, ms[4])} : ms \in Splits(m)}

RECURSIVE Family(_, _, _, _)
\* F[k]: the filters of exactly k nodes, L[k]: the non-empty lists of
\* elements that hold k nodes together, for k up to n.  `atoms` are the
\* filters of one node, `elements` what else a list may hold, `others` what
\* else an attribute of bool may hold
Family(atoms, elements, others, n) ==
  IF n = 0 THEN [F |-> <<>>, L |-> <<>>]
  ELSE LET T == Family(atoms, elements, others, n - 1)
           Fn == IF n = 1 THEN atoms
                 ELSE {Obj1("and", Arr(l)) : l \in T.L[n - 1]}
                      \cup {Obj1("or", Arr(l)) : l \in T.L[n - 1]}
                      \cup {Obj1("not", f) : f \in T.F[n - 1]}
                      \cup Bools(T.L, others, n - 1)
           F == Append(T.F, Fn)
           C == [k \in 1..n |-> IF k = 1 THEN F[k] \cup elements ELSE F[k]]
           Ln == {<<f>> : f \in C[n]}
                 \cup UNION {{<<f>> \o l : f \in C[k], l \in T.L[n - k]} : k \in 1..(n - 1)}
       IN [F |-> F, L |-> Append(T.L, Ln)]

\* the parts of the filters of the boolean family: filters and lists of at
\* most MaxSize - 1 nodes
Parts == Family(Leaves, {}, {}, MaxSize - 1)

\* f is a filter of n nodes made of the parts T: a leaf, or a keyword over
\* parts that hold n - 1 nodes
Composed(f, T, atoms, others, n) ==
  \/ n = 1 /\ f \in atoms
  \/ n > 1 /\ \E l \in T.L[n - 1] : f = Obj1("and", Arr(l))
  \/ n > 1 /\ \E l \in T.L[n - 1] : f = Obj1("or", Arr(l))
  \/ n > 1 /\ \E g \in T.F[n - 1] : f = Obj1("not", g)
  \/ n > 1 /\ \E ms \in Splits(n - 1) :
       \E v1 \in AttributeValues(T.L, others, ms[1]),
          v2 \in AttributeValues(T.L, others, ms[2]),
          v3 \in AttributeValues(T.L, others, ms[3]),
          v4 \in AttributeValues(T.L, others, ms[4]) :
         f = Obj1("bool", BoolObject(v1, v2, v3, v4))

\* the boolean family: and, or, not and bool over the leaves, up to MaxSize
\* nodes
BooleanFilter(f) == \E n \in 1..MaxSize : Composed(f, Parts, Leaves, {}, n)

\* the clause family: the bool filters of two clauses, one a list of one
\* leaf, the other a list of one filter of at most MaxSize - 1 nodes
ClauseFilter(f) ==
  \E i \in 1..4, j \in 1..4, leaf \in Leaves, n \in 1..(MaxSize - 1) :
    /\ i # j
    /\ \E g \in Parts.F[n] :
         LET v == [k \in 1..4 |-> IF k = i THEN Arr(<<leaf>>)
                                  ELSE IF k = j THEN Arr(<<g>>) ELSE Undefined]
         IN f = Obj1("bool", BoolObject(v[1], v[2], v[3], v[4]))

\* the largest number of nodes of a filter of the edge family
MaxEdgeSize == 3

\* the leaf predicates of the edge family: a one-value and a two-value list
\* that standardize to an `or`, and a leaf that standardizes to a `not`
EdgeLeaves ==
  {Obj1("exists", Obj1("field", Str("a"))),
   Obj1("missing", Obj1("field", Str("b"))),
   Obj1("ids", Obj1("values", Arr(<<Str("x")>>))),
   Obj1("in", Obj1("f", Arr(<<Str("x"), Str("y")>>)))}

\* what a list of the edge family holds besides filters: null, and an object
\* whose only key names a member that is not a DSL keyword
EdgeElements == {Null, Obj1("constructor", Null)}

\* the values of an attribute of bool that are not lists
FalsyValues == {Null, Bool(FALSE), Num(0), Str("")}

\* the parts of the filters of the edge family
EdgeParts == Family(EdgeLeaves, EdgeElements, FalsyValues, MaxEdgeSize - 1)

\* the edge family: and, or, not and bool over leaves that are rewritten,
\* lists with a null element, attributes of bool with a falsy value
EdgeFilter(f) ==
  \E n \in 1..MaxEdgeSize : Composed(f, EdgeParts, EdgeLeaves, FalsyValues, n)

\* names that no member of a Standardizer bears
UnknownNames == {"term", "AND", "geospatial", "_isLeaf", "0"}

\* what the only key of a filter of the keyword family maps to
Contents ==
  {Null, Str("x"), Obj(<<>>), Obj1("field", Str("a")), Obj1("f", Str("x")),
   Arr(<<Obj1("exists", Obj1("field", Str("a")))>>),
   Obj1("field", Str("")), Obj1("field", Num(1)), Obj2("field", Str("a"), "f", Str("x")),
   Arr(<<>>)}

\* the keyword family: every name under one key, filters of no key and of
\* two keys, and values that are not objects
KeywordFilters ==
  {Obj1(k, c) : k \in Keywords \cup OtherMembers \cup UnknownNames, c \in Contents}
  \cup {Obj2(k1, c, k2, c) : k1 \in {"exists", "term"}, k2 \in {"and", "toString"}, c \in Contents}
  \cup {Undefined, Null, Obj(<<>>), Arr(<<>>), Num(0), Num(1), Str(""), Str("a"), Str("ab"),
        Bool(FALSE), Bool(TRUE), Arr(<<Obj1("exists", Obj1("field", Str("a")))>>)}

\* the coordinates of the geo family are the integers of -MaxCoord..MaxCoord
MaxCoord == 1

Coords == {Num(n) : n \in (0 - MaxCoord)..MaxCoord}

\* {geoBoundingBox: {loc: bBox}}
BoundingBox(bBox) == Obj1("geoBoundingBox", Obj1("loc", bBox))

\* { top, left, bottom, right }
FlatBox(t, l, b, r) ==
  Obj(<< <<"top", t>>, <<"left", l>>, <<"bottom", b>>, <<"right", r>> >>)

\* { topLeft: { lat, lon }, bottomRight: { lat, lon } }
ObjectBox(t, l, b, r) ==
  Obj2("topLeft", Obj2("lat", t, "lon", l), "bottomRight", Obj2("lat", b, "lon", r))

\* { topLeft: [ lat, lon ], bottomRight: [ lat, lon ] }
ArrayBox(t, l, b, r) ==
  Obj2("topLeft", Arr(<<t, l>>), "bottomRight", Arr(<<b, r>>))

\* the geo family: bounding boxes in the three numeric formats, in the
\* string format, and boxes of no accepted format
GeoFilters ==
  {BoundingBox(FlatBox(t, l, b, r)) : t \in Coords, l \in Coords, b \in Coords, r \in Coords}
  \cup {BoundingBox(ObjectBox(t, l, b, r)) : t \in Coords, l \in Coords, b \in Coords, r \in Coords}
  \cup {BoundingBox(ArrayBox(t, l, b, r)) : t \in Coords, l \in Coords, b \in Coords, r \in Coords}
  \cup {BoundingBox(Obj2("topLeft", Str(p), "bottomRight", Str(q))) :
          p \in DOMAIN StringPoints \cup {"north"}, q \in DOMAIN StringPoints}
  \cup {BoundingBox(Obj2("top_left", Arr(<<t, Num(1)>>), "bottom_right", Arr(<<Num(1), t>>))) : t \in Coords}
  \cup {BoundingBox(Obj2("topLeft", Arr(<<t, Num(1), Num(1)>>), "bottomRight", Arr(<<Num(1), t>>))) : t \in Coords}
  \cup {BoundingBox(FlatBox(t, Str("1"), Num(1), Num(1))) : t \in Coords}
  \cup {BoundingBox(Obj(<< <<"top", t>>, <<"left", t>>, <<"bottom", t>> >>)) : t \in Coords}

\* the document field names of the leaf family
FieldNames == {"", "a"}

\* the leaf family: each leaf predicate, well formed but for its field name
LeafFilters ==
  UNION {{Obj1("exists", Obj1("field", Str(n))),
          Obj1("missing", Obj1("field", Str(n))),
          Obj1("equals", Obj1(n, Str("x"))),
          Obj1("in", Obj1(n, Arr(<<Str("x"), Str("y")>>))),
          Obj1("range", Obj1(n, Obj2("gte", Num(0), "lt", Num(1)))),
          Obj1("regexp", Obj1(n, Obj2("value", Str("^a"), "flags", Str("i")))),
          Obj1("geoBoundingBox", Obj1(n, FlatBox(Num(1), Num(1), Num(1), Num(1)))),
          Obj1("geoDistance", Obj2(n, Obj2("lat", Num(1), "lon", Num(1)), "distance", Str("1km"))),
          Obj1("geoDistanceRange",
               Obj(<< <<n, Arr(<<Num(1), Num(1)>>)>>, <<"from", Str("1m")>>, <<"to", Str("1km")>> >>)),
          Obj1("geoPolygon",
               Obj1(n, Obj1("points", Arr(<<Arr(<<Num(0), Num(0)>>), Arr(<<Num(0), Num(1)>>),
                                            Arr(<<Num(1), Num(1)>>)>>))))} : n \in FieldNames}

\* the largest number of attributes of the bound object of a filter of the
\* range family
MaxBounds == 2

\* the attribute names of the range family: the four bounds and a stranger
BoundNames == {"gt", "gte", "lt", "lte", "eq"}

\* the attribute values of the range family
BoundValues == {Num(0 - Infinity), Num(0), Num(1), Num(Infinity), Str("1")}

\* {range: {age: bounds}}
RangeOn(bounds) == Obj1("range", Obj1("age", bounds))

\* the range family: a bound object of at most MaxBounds attributes, its
\* names distinct, in every order
RangeFilters ==
  UNION {{RangeOn(Obj(q)) :
            q \in {r \in [1..n -> BoundNames \X BoundValues] :
                     \A i \in 1..n, j \in 1..n : i # j => r[i][1] # r[j][1]}} :
         n \in 0..MaxBounds}

\* the nested filters of the nesting family: the objects of the keyword and
\* leaf families that have a key
NestedFilters ==
  {c \in KeywordFilters \cup LeafFilters : c.t = "object" /\ Len(c.o) > 0}

\* the nested filters that the nesting family pairs in one list
PairedFilters ==
  {Obj1("exists", Obj1("field", Str("a"))),
   Obj1("exists", Null),
   Obj1("term", Obj1("f", Str("x"))),
   Obj1("constructor", Null),
   Obj2("exists", Obj1("field", Str("a")), "and", Obj1("field", Str("a"))),
   Obj1("range", Obj1("age", Obj2("gt", Num(1), "lt", Num(0))))}

\* the nesting family: a nested filter as the only child of and, or, not and
\* of each attribute of bool, and two nested filters in one list
NestingFilters ==
  UNION {{Obj1("and", Arr(<<c>>)), Obj1("or", Arr(<<c>>)), Obj1("not", c),
          Obj1("bool", Obj1("must", Arr(<<c>>))),
          Obj1("bool", Obj1("must_not", Arr(<<c>>))),
          Obj1("bool", Obj1("should", Arr(<<c>>))),
          Obj1("bool", Obj1("should_not", Arr(<<c>>)))} : c \in NestedFilters}
  \cup UNION {{Obj1("and", Arr(<<c, d>>)), Obj1("or", Arr(<<c, d>>)),
               Obj1("bool", Obj2("must", Arr(<<c, d>>), "should", Arr(<<d, c>>)))} :
              c \in PairedFilters, d \in PairedFilters}

\* the largest number of values of a list of the list family
MaxValues == 3

\* the lists of at most MaxValues values, strings and a number, duplicates
\* included
ValueLists ==
  UNION {{Arr(l) : l \in [1..n -> {Str("x"), Str("y"), Num(1)}]} : n \in 0..MaxValues}

\* the list family: ids and in over the lists, with a second attribute, and
\* with values that are not lists
ListFilters ==
  UNION {{Obj1("ids", Obj1("values", l)),
          Obj1("ids", Obj1("value", l)),
          Obj1("ids", Obj2("values", l, "f", l)),
          Obj1("in", Obj1("f", l)),
          Obj1("in", Obj1("", l)),
          Obj1("in", Obj2("f", l, "g", l))} : l \in ValueLists}
  \cup {Obj1(k, Obj1(n, v)) : k \in {"ids", "in"}, n \in {"values", "f"},
                              v \in {Null, Num(0), Str(""), Str("x"), Obj1("0", Str("x"))}}

\* the largest number of points of a polygon of the polygon family
MaxPoints == 3

\* the points of the polygon family: an array, an object, a string, and a
\* string that is no point
PolygonPoints ==
  {Arr(<<Num(0), Num(1)>>), Obj2("lat", Num(1), "lon", Num(0)), Str("1, 2"), Str("north")}

\* the polygon family: geoPolygon on `loc` over the lists of at most
\* MaxPoints points
PolygonFilters ==
  UNION {{Obj1("geoPolygon", Obj1("loc", Obj1("points", Arr(l)))) :
            l \in [1..n -> PolygonPoints]} : n \in 0..MaxPoints}

\* the attribute family: bool with an attribute it does not accept, next to
\* clauses that are valid, that are refused, and that make a call throw; and
\* bool over values that are no object
AttributeFilters ==
  LET a == Obj1("exists", Obj1("field", Str("a")))
      clauses == {Arr(<<a>>), Arr(<<a, a>>), Arr(<<Obj1("exists", Str("a"))>>),
                  Arr(<<Obj1("constructor", Null)>>), Arr(<<>>), Str("x")}
  IN UNION {{Obj1("bool", Obj2("must", c, "filter", Arr(<<a>>))),
             Obj1("bool", Obj2("minimum_should_match", Num(1), "should", c)),
             Obj1("bool", Obj2("must_not", c, "should_not", c)),
             Obj1("bool", Obj1("must", c))} : c \in clauses}
     \cup {Obj1("bool", v) : v \in {Null, Undefined, Num(0), Num(1), Str(""), Str("must"),
                                    Bool(TRUE), Obj(<<>>), Arr(<<>>), Arr(<<a>>)}}

\* the values under `from` and `to` of the distance-range family: distances
\* the converter reads, a text it does not read, and a number
RangeDistances == {Str("1m"), Str("2m"), Str("1km"), Str("far"), Num(1)}

\* the values under the document field of the distance-range family: points
\* in the formats convertGeopoint reads, and values it does not read
RangePoints ==
  {Arr(<<Num(1), Num(0)>>), Obj2("lat", Num(0), "lon", Num(1)), Str("1, 2"), Str("north"), Null}

\* the distance-range family: the document field before or after `from` and
\* `to`, and bodies of two and of four attributes
DistanceRangeFilters ==
  {Obj1("geoDistanceRange", Obj(<< <<"loc", p>>, <<"from", f>>, <<"to", t>> >>)) :
     p \in RangePoints, f \in RangeDistances, t \in RangeDistances}
  \cup {Obj1("geoDistanceRange", Obj(<< <<"to", t>>, <<"from", f>>, <<"loc", p>> >>)) :
          p \in RangePoints, f \in RangeDistances, t \in RangeDistances}
  \cup {Obj1("geoDistanceRange", Obj(<< <<"from", Str("1m")>>, <<"to", t>> >>)) : t \in RangeDistances}
  \cup {Obj1("geoDistanceRange", Obj(<< <<"loc", p>>, <<"to", Str("1km")>> >>)) : p \in RangePoints}
  \cup {Obj1("geoDistanceRange", Obj(<< <<"loc", p>>, <<"at", p>>, <<"to", Str("1km")>> >>)) : p \in RangePoints}
  \cup {Obj1("geoDistanceRange",
             Obj(<< <<"loc", p>>, <<"from", Str("1m")>>, <<"to", Str("1km")>>, <<"at", p>> >>)) :
          p \in RangePoints}

\* the values under `value` of the regexp family: patterns that compile, one
\* that does not, the empty pattern, and values that are not strings
RegexpValues ==
  {Str("^a"), Str("("), Str(""), Num(5), Num(0), Bool(TRUE), Null, Obj(<<>>), Arr(<<Str("(")>>)}

\* the values under `flags` of the regexp family
RegexpFlags == {Str("i"), Str("x"), Str(""), Num(0), Num(1), Null, Bool(FALSE)}

\* the regexp family: a field over `value` alone, over `value` and `flags` in
\* both orders, over `flags` alone, over a stranger, and two fields
RegexpFilters ==
  {Obj1("regexp", Obj1("f", Obj1("value", v))) : v \in RegexpValues}
  \cup {Obj1("regexp", Obj1("f", Obj2("value", v, "flags", g))) : v \in RegexpValues, g \in RegexpFlags}
  \cup {Obj1("regexp", Obj1("f", Obj2("flags", g, "value", v))) : v \in RegexpValues, g \in RegexpFlags}
  \cup {Obj1("regexp", Obj1("f", Obj1("flags", g))) : g \in RegexpFlags}
  \cup {Obj1("regexp", Obj1("f", Obj2("value", v, "flag", Str("i")))) : v \in RegexpValues}
  \cup {Obj1("regexp", Obj2("f", Obj1("value", v), "g", Obj1("value", v))) : v \in RegexpValues}
  \cup {Obj1("regexp", Obj1("f", v)) : v \in RegexpValues}

(***************************************************************************)
(* The calls of standardize that one call of it makes, itself included.    *)
(***************************************************************************)
\* the number of frames of standardize the engine's stack holds before a
\* further call throws the RangeError
StackLimit == 16

RECURSIVE SelfCalls(_)
\* this[keywords[0]](filters) with `standardize` as keywords[0]: each call
\* calls standardize with the filters it was given, from a stack that holds
\* `depth` frames already
SelfCalls(depth) ==
  IF depth >= StackLimit THEN 0 ELSE 1 + SelfCalls(depth + 1)

RECURSIVE Calls(_), SumCalls(_, _)

\* the calls made for the first n elements of list
SumCalls(list, n) ==
  IF n = 0 THEN 0 ELSE SumCalls(list, n - 1) + Calls(list[n])

\* the calls of filter[operand].map(f => this.standardize(f)) in `and` and
\* `or`: none when the list is refused, and none past a call that throws
ListCalls(filter, operand) ==
  IF mustBeNonEmptyArray(filter, operand, operand).kind # "fulfilled" THEN 0
  ELSE LET list == Get(filter, operand).a
           stop == FindIndex(list, LAMBDA v : standardize(v).kind = "thrown")
       IN IF Some(list, LAMBDA v : v = Null \/ NotAFilter(v)) THEN 0
          ELSE SumCalls(list, IF stop > 0 THEN stop ELSE Len(list))

\* the promise a callback of `bool` receives has been fulfilled and the
\* element it adds to standardized.and, if any, has been added
Joinable(p, wrapped) ==
  /\ p.kind = "fulfilled"
  /\ truthy(p.value.f)
       => AndConcat(p.value.standardized,
                    IF wrapped THEN Obj1("not", p.value.f) ELSE p.value.f).kind # "thrown"

\* the calls of the four callbacks of `bool` that standardize an attribute,
\* each made when the callback runs and the attribute is truthy
BoolCalls(b) ==
  LET p1 == mustBeNonEmptyObject(b, "bool")
      p2 == Then(p1, LAMBDA fields : BoolMust(b, fields))
      p3 == Then(p2, LAMBDA f : BoolMustNot(b, f))
      p4 == Then(p3, LAMBDA st : BoolShould(b, st))
  IN (IF p1.kind = "fulfilled" /\ truthy(Get(b, "must"))
           /\ \A i \in 1..Len(p1.value.a) :
                  p1.value.a[i].s \in {"must", "must_not", "should", "should_not"}
        THEN ListCalls(Obj1("and", Get(b, "must")), "and") ELSE 0)
     + (IF p2.kind = "fulfilled" /\ truthy(Get(b, "must_not"))
          THEN ListCalls(Obj1("or", Get(b, "must_not")), "or") ELSE 0)
     + (IF Joinable(p3, TRUE) /\ truthy(Get(b, "should"))
          THEN ListCalls(Obj1("or", Get(b, "should")), "or") ELSE 0)
     + (IF Joinable(p4, FALSE) /\ truthy(Get(b, "should_not"))
          THEN ListCalls(Obj1("and", Get(b, "should_not")), "and") ELSE 0)

\* the calls of standardize made by standardize(f), this one included
Calls(f) ==
  LET keywords == IF truthy(f) THEN ObjectKeys(f) ELSE <<>>
  IN IF Len(keywords) # 1 THEN 1
     ELSE CASE keywords[1] = "standardize" -> SelfCalls(0)
            [] keywords[1] \in {"and", "or"} -> 1 + ListCalls(f, keywords[1])
            [] keywords[1] = "not" ->
                 1 + (IF notChecks(f).kind = "fulfilled" THEN Calls(Get(f, "not")) ELSE 0)
            [] keywords[1] = "bool" -> 1 + BoolCalls(Get(f, "bool"))
            [] OTHER -> 1

\* the longest list of the flattening family
MaxList == 3

\* the elements of the lists of the flattening family under the operand op:
\* two leaves, nodes of the same operand, one with a repeated child, a node
\* of the other operand, and an `in` that standardizes to an `or` node
FlatElements(op) ==
  {Obj1("exists", Obj1("field", Str("a"))),
   Obj1("exists", Obj1("field", Str("b"))),
   Obj1(op, Arr(<<Obj1("exists", Obj1("field", Str("a"))), Obj1("exists", Obj1("field", Str("b")))>>)),
   Obj1(op, Arr(<<Obj1("exists", Obj1("field", Str("b"))), Obj1("exists", Obj1("field", Str("a"))),
                  Obj1("exists", Obj1("field", Str("b")))>>)),
   Obj1(IF op = "and" THEN "or" ELSE "and",
        Arr(<<Obj1("exists", Obj1("field", Str("a"))), Obj1("exists", Obj1("field", Str("b")))>>)),
   Obj1("in", Obj1("f", Arr(<<Str("x"), Str("y")>>)))}

\* the flattening family: `and` and `or` over every list of at most MaxList
\* of these elements
FlatteningFilters ==
  UNION {{Obj1(op, Arr(list)) : list \in [1..n -> FlatElements(op)]} :
         op \in {"and", "or"}, n \in 1..MaxList}

\* a caller holds a filter of one of the families and has not called yet
Init ==
  /\ \/ BooleanFilter(filters)
     \/ ClauseFilter(filters)
     \/ EdgeFilter(filters)
     \/ filters \in KeywordFilters \cup GeoFilters \cup LeafFilters \cup RangeFilters
                   \cup NestingFilters \cup ListFilters \cup PolygonFilters
                   \cup AttributeFilters \cup DistanceRangeFilters \cup RegexpFilters
                   \cup FlatteningFilters
  /\ pc = "ready"
  /\ outcome = Resolve(Undefined)
  /\ written = FALSE
  /\ frames = <<>>

\* the caller invokes standardize(filters) and the call completes
Call ==
  /\ pc = "ready"
  /\ outcome' = standardize(filters)
  /\ written' = Trace(filters).wrote
  /\ pc' = "done"
  /\ UNCHANGED <<filters, frames>>

Next == Call

Spec == Init /\ [][Next]_vars

(***************************************************************************)
(* Several calls on one Standardizer.  The class has no constructor and no *)
(* field: what a call keeps between two callbacks of its promise chain is  *)
(* held by the closures of that call, its frame.  The callbacks of         *)
(* Promise.reduce in _standardizeFilterArray run one at a time, and the    *)
(* callbacks of different calls run in any order.  The calls an element of *)
(* the list gives rise to are taken as one step each.                      *)
(***************************************************************************)
\* the number of calls in flight on the instance
NumCalls == 2

Callers == 1..NumCalls

\* the filters of the callers: and/or over lists that are folded by push and
\* by concat, lists with an element that is refused, and filters that are
\* no list
CallFilters ==
  LET a == Obj1("exists", Obj1("field", Str("a")))
      b == Obj1("equals", Obj1("b", Str("x")))
  IN {Obj1("and", Arr(<<a, b>>)),
      Obj1("and", Arr(<<b, Obj1("and", Arr(<<a, b>>)), a>>)),
      Obj1("and", Arr(<<a, Obj1("or", Arr(<<a, b>>))>>)),
      Obj1("and", Arr(<<a, Obj1("exists", Str("a"))>>)),
      Obj1("or", Arr(<<b, a>>)),
      Obj1("or", Arr(<<Obj1("or", Arr(<<a, b>>)), Obj1("ids", Obj1("values", Arr(<<Str("a")>>)))>>)),
      Obj1("or", Arr(<<a>>)),
      Obj1("or", Arr(<<a, Null>>)),
      Obj1("and", Arr(<<>>)),
      a}

\* a frame: the filter of the call, where the call is `at`, the number n of
\* elements folded, the `result` of _standardizeFilterArray, the outcome of
\* the call, and whether a callback of the call ran while another call was
\* between two of its own (`overlapped`)
Frame(f) ==
  [filter |-> f, at |-> "ready", n |-> 0, result |-> Undefined,
   outcome |-> Resolve(Undefined), overlapped |-> FALSE]

\* the callers hold their filters and none has called yet
InitCalls ==
  /\ frames \in [Callers -> {Frame(f) : f \in CallFilters}]
  /\ filters = Undefined
  /\ pc = "calls"
  /\ outcome = Resolve(Undefined)
  /\ written = FALSE

\* a frame whose call has settled
Settling(frame, p) == [frame EXCEPT !.at = "done", !.outcome = p]

\* the operand of a filter whose call goes through _standardizeFilterArray
OperandOf(f) == ObjectKeys(f)[1]

\* the part of standardize(filter) for an and/or filter that runs before the
\* first callback of Promise.reduce: the checks of the list, the `result`
\* literal (lines 595-598), and map, which gives up at an element whose
\* call throws; the promise is fulfilled with `result`
ArrayStart(filter, operand) ==
  LET list == Get(filter, operand).a
      idx == FindIndex(list, LAMBDA v : v = Null \/ NotAFilter(v))
      thrown == FindIndex(list, LAMBDA v : standardize(v).kind = "thrown")
  IN IF mustBeNonEmptyArray(filter, operand, operand).kind # "fulfilled"
       THEN mustBeNonEmptyArray(filter, operand, operand)
     ELSE IF idx > 0 /\ list[idx] = Null THEN Settled(Throw(KeysOfNullish))
     ELSE IF idx > 0
       THEN Reject(BadRequestError("\"" \o operand \o "\" operand can only contain non-empty objects"))
     ELSE IF thrown > 0 THEN Settled(standardize(list[thrown]))
     ELSE Resolve(Obj2(operand, Arr(<<>>), "_isLeaf", Bool(TRUE)))

\* caller c invokes standardize: an and/or filter gets its `result` and
\* waits for its elements, any other filter is settled by its method
Begin(c) ==
  /\ frames[c].at = "ready"
  /\ frames' = [frames EXCEPT ![c] =
       IF frames[c].filter.t = "object" /\ Len(ObjectKeys(frames[c].filter)) = 1
            /\ OperandOf(frames[c].filter) \in {"and", "or"}
         THEN Only({IF p.kind = "fulfilled"
                      THEN [frames[c] EXCEPT !.at = "reducing", !.result = p.value]
                      ELSE Settling(frames[c], p) :
                    p \in {ArrayStart(frames[c].filter, OperandOf(frames[c].filter))}})
         ELSE Settling(frames[c], Settled(standardize(frames[c].filter)))]
  /\ UNCHANGED <<filters, pc, outcome, written>>

\* a call other than c is between two callbacks of its reduce
OthersReducing(c) == \E d \in Callers \ {c} : frames[d].at = "reducing" /\ frames[d].n > 0

\* `result` kept on the instance, one for `and` and one for `or`: the
\* callbacks of a call read the result of the first call that is reducing
\* with its operand
ResultOnInstance(fs, c) ==
  LET Shares(d) == fs[d].at = "reducing" /\ ObjectKeys(fs[d].filter) = ObjectKeys(fs[c].filter)
  IN fs[CHOOSE d \in Callers : Shares(d) /\ \A e \in Callers : Shares(e) => d <= e].result

\* the `result` the callbacks of call c read and assign: the variable of that
\* name of the call's own _standardizeFilterArray
ResultOf(fs, c) == fs[c].result

\* the frame of c after the callback of Promise.reduce has run on the
\* element `sub`: a rejected element rejects the call, an exception in the
\* callback rejects it too
Folding(frame, result, sub, operand) ==
  IF sub.kind = "rejected" THEN Settling(frame, sub)
  ELSE Only({IF folded.kind = "thrown"
               THEN Settling(frame, Settled(folded))
               ELSE [frame EXCEPT !.n = @ + 1, !.result = folded.value] :
             folded \in {Fold(result, sub.value, operand)}})

\* the callback of Promise.reduce of call c runs on the next element
FoldNext(c) ==
  /\ frames[c].at = "reducing"
  /\ frames[c].n < Len(Get(frames[c].filter, OperandOf(frames[c].filter)).a)
  /\ frames' = [frames EXCEPT ![c] =
       Only({[fr EXCEPT !.overlapped = @ \/ OthersReducing(c)] :
             fr \in {Folding(frames[c], ResultOf(frames, c),
                             standardize(Get(frames[c].filter, OperandOf(frames[c].filter)).a[frames[c].n + 1]),
                             OperandOf(frames[c].filter))}})]
  /\ UNCHANGED <<filters, pc, outcome, written>>

\* the `then` after Promise.reduce of call c: its only element, or `result`
Finish(c) ==
  /\ frames[c].at = "reducing"
  /\ frames[c].n = Len(Get(frames[c].filter, OperandOf(frames[c].filter)).a)
  /\ frames' = [frames EXCEPT ![c] =
       Settling(frames[c],
                IF Len(Get(ResultOf(frames, c), OperandOf(frames[c].filter)).a) = 1
                  THEN Resolve(Get(ResultOf(frames, c), OperandOf(frames[c].filter)).a[1])
                  ELSE Resolve(ResultOf(frames, c)))]
  /\ UNCHANGED <<filters, pc, outcome, written>>

NextCalls == \E c \in Callers : Begin(c) \/ FoldNext(c) \/ Finish(c)

SpecCalls == InitCalls /\ [][NextCalls]_vars

(***************************************************************************)
(* What the properties below speak of.                                     *)
(***************************************************************************)
\* the call has completed
Done == pc = "done"

\* the call has completed with a canonical tree
Accepted == Done /\ outcome.kind = "fulfilled"

RECURSIVE SubValues(_)
\* a value and every value nested in it, at any depth
SubValues(v) ==
  {v} \cup
    CASE v.t = "array" -> UNION {SubValues(v.a[i]) : i \in 1..Len(v.a)}
      [] v.t = "object" -> UNION {SubValues(v.o[i][2]) : i \in 1..Len(v.o)}
      [] OTHER -> {}

\* v is a node {op: [...]} of a canonical tree
IsNode(v, op) ==
  v.t = "object" /\ Len(v.o) > 0 /\ v.o[1][1] = op /\ isArray(v.o[1][2])

\* the children of a node {and: [...]} or {or: [...]}
Children(v) == v.o[1][2].a

\* the `and` and `or` nodes of the tree returned
Combinators ==
  {v \in SubValues(outcome.value) : IsNode(v, "and") \/ IsNode(v, "or")}

\* filters is {bool: {...}} with exactly the attributes named, each a list
IsBoolOf(attributes) ==
  /\ filters.t = "object"
  /\ ObjectKeys(filters) = <<"bool">>
  /\ Get(filters, "bool").t = "object"
  /\ ObjectKeys(Get(filters, "bool")) = attributes
  /\ \A i \in 1..Len(attributes) : isArray(Get(Get(filters, "bool"), attributes[i]))

\* C1: a bool filter with a valid `must` list and a valid `should` list, the
\* `must` list of one element included, standardizes to an `and` node whose
\* children are the standardized `must` terms followed by the standardized
\* `should`-or, with the leaf flag false
C1_BoolMustShould ==
  LET must == and(Obj1("and", Get(Get(filters, "bool"), "must")))
      should == or(Obj1("or", Get(Get(filters, "bool"), "should")))
      terms == IF IsNode(must.value, "and") THEN Children(must.value) ELSE <<must.value>>
  IN (Done /\ IsBoolOf(<<"must", "should">>) /\ must.kind = "fulfilled" /\ should.kind = "fulfilled")
       => outcome = Resolve(Obj2("and", Arr(Append(terms, should.value)), "_isLeaf", Bool(FALSE)))

\* C2: no `and` and no `or` node of a returned tree has exactly one child
C2_NoSingleton == Accepted => \A v \in Combinators : Len(Children(v)) # 1

\* C3: every `and` and `or` node of a returned tree has at least one child,
\* and no child is an array or an empty object
C3_ChildLists ==
  Accepted => \A v \in Combinators :
    /\ Len(Children(v)) > 0
    /\ \A i \in 1..Len(Children(v)) :
         ~isArray(Children(v)[i]) /\ Children(v)[i] # Obj(<<>>)

\* C4: a call that fails fails with a rejection that carries a
\* BadRequestError, never with another kind of error
C4_OnlyBadRequest ==
  (Done /\ outcome.kind \in {"rejected", "thrown"})
    => outcome.kind = "rejected" /\ outcome.error.class = "BadRequestError"

\* C5: a filter whose only key is not a DSL keyword is rejected as an
\* unknown keyword that names the key, whatever else bears that name
C5_UnknownKeyword ==
  (Done /\ filters.t = "object" /\ Len(filters.o) = 1 /\ filters.o[1][1] \notin Keywords)
    => outcome = Reject(BadRequestError("Unknown DSL keyword: " \o filters.o[1][1]))

\* {exists: {field}}
ExistsOf(field) == Obj1("exists", Obj1("field", field))

\* the `equals` leaves that a list of values stands for
EqualsOf(field, values) ==
  {Obj1("equals", Obj1(field, values.a[i])) : i \in 1..Len(values.a)}

\* the attributes of a bool filter that hold a clause
Clauses(b) ==
  {k \in {"must", "must_not", "should", "should_not"} : truthy(Get(b, k))}

RECURSIVE InputAtoms(_)
\* the leaf predicates a filter is made of
InputAtoms(f) ==
  LET k == f.o[1][1]
      v == f.o[1][2]
  IN CASE k \in {"exists", "missing"} -> {ExistsOf(Get(v, "field"))}
       [] k = "ids" -> EqualsOf("_id", Get(v, "values"))
       [] k = "in" -> EqualsOf(v.o[1][1], v.o[1][2])
       [] k \in {"and", "or"} -> UNION {InputAtoms(v.a[i]) : i \in 1..Len(v.a)}
       [] k = "not" -> InputAtoms(v)
       [] k = "bool" ->
            UNION {UNION {InputAtoms(Get(v, c).a[i]) : i \in 1..Len(Get(v, c).a)} : c \in Clauses(v)}
       [] OTHER -> {f}

RECURSIVE InputHolds(_, _)
\* the truth value of a filter when the leaf predicates of `holds` are true
\* and the others false
InputHolds(f, holds) ==
  LET k == f.o[1][1]
      v == f.o[1][2]
      EachHolds(l) == \A i \in 1..Len(l.a) : InputHolds(l.a[i], holds)
      OneHolds(l) == \E i \in 1..Len(l.a) : InputHolds(l.a[i], holds)
  IN CASE k = "exists" -> ExistsOf(Get(v, "field")) \in holds
       [] k = "missing" -> ExistsOf(Get(v, "field")) \notin holds
       [] k = "ids" -> EqualsOf("_id", Get(v, "values")) \cap holds # {}
       [] k = "in" -> EqualsOf(v.o[1][1], v.o[1][2]) \cap holds # {}
       [] k = "and" -> EachHolds(v)
       [] k = "or" -> OneHolds(v)
       [] k = "not" -> ~InputHolds(v, holds)
       [] k = "bool" ->
            /\ "must" \in Clauses(v) => EachHolds(Get(v, "must"))
            /\ "must_not" \in Clauses(v) => ~OneHolds(Get(v, "must_not"))
            /\ "should" \in Clauses(v) => OneHolds(Get(v, "should"))
            /\ "should_not" \in Clauses(v) => ~EachHolds(Get(v, "should_not"))
       [] OTHER -> f \in holds

RECURSIVE TreeHolds(_, _)
\* the truth value of a canonical tree under the same assignment
TreeHolds(t, holds) ==
  CASE IsNode(t, "and") -> \A i \in 1..Len(Children(t)) : TreeHolds(Children(t)[i], holds)
    [] IsNode(t, "or") -> \E i \in 1..Len(Children(t)) : TreeHolds(Children(t)[i], holds)
    [] t.t = "object" /\ Len(t.o) > 0 /\ t.o[1][1] = "not" -> ~TreeHolds(t.o[1][2], holds)
    [] OTHER -> t \in holds

RECURSIVE Propositional(_)
\* f is built from and, or, not and bool over exists, missing, ids, in and
\* equals
Propositional(f) ==
  /\ f.t = "object"
  /\ Len(f.o) = 1
  /\ LET k == f.o[1][1]
         v == f.o[1][2]
     IN CASE k \in {"exists", "missing", "ids", "in", "equals"} -> TRUE
          [] k \in {"and", "or"} ->
               isArray(v) /\ \A i \in 1..Len(v.a) : Propositional(v.a[i])
          [] k = "not" -> Propositional(v)
          [] k = "bool" ->
               /\ v.t = "object"
               /\ \A c \in Clauses(v) :
                    isArray(Get(v, c)) /\ \A i \in 1..Len(Get(v, c).a) : Propositional(Get(v, c).a[i])
          [] OTHER -> FALSE

\* C6: the tree returned for a filter built from and, or, not and bool over
\* leaf predicates has the truth value of the filter under every assignment
\* of truth values to the leaf predicates
C6_SameTruthValue ==
  (Accepted /\ Propositional(filters))
    => \A holds \in SUBSET InputAtoms(filters) :
         TreeHolds(outcome.value, holds) = InputHolds(filters, holds)

\* C6 happens: a bool with a `must_not` of two filters and a `should` has
\* been standardized to a tree
C6_Witness ==
  /\ Accepted
  /\ IsBoolOf(<<"must_not", "should">>)
  /\ Len(Get(Get(filters, "bool"), "must_not").a) = 2
  /\ IsNode(outcome.value, "and")

\* C7: in a returned tree no `and` node is a child of an `and` node and no
\* `or` node a child of an `or` node
C7_NoSameOperandNesting ==
  Accepted => \A v \in Combinators : \A i \in 1..Len(Children(v)) :
    ~IsNode(Children(v)[i], v.o[1][1])

\* the document field name of a leaf predicate of the leaf family
FieldNameOf(f) ==
  LET k == f.o[1][1]
      v == f.o[1][2]
  IN IF k \in {"exists", "missing"} THEN Get(v, "field").s
     ELSE ObjectKeys(v)[FindIndex(ObjectKeys(v), LAMBDA n : n \notin {"distance", "from", "to"})]

\* C8: every leaf validator rejects a filter whose document field name is
\* the empty string
C8_NoEmptyFieldName ==
  (Done /\ filters \in LeafFilters /\ FieldNameOf(filters) = "") => outcome.kind = "rejected"

\* filters is a bounding box on `loc` in the flat format, its four values
\* numbers
IsFlatBox ==
  /\ filters.t = "object"
  /\ ObjectKeys(filters) = <<"geoBoundingBox">>
  /\ Get(filters, "geoBoundingBox").t = "object"
  /\ ObjectKeys(Get(filters, "geoBoundingBox")) = <<"loc">>
  /\ Get(Get(filters, "geoBoundingBox"), "loc").t = "object"
  /\ ObjectKeys(Get(Get(filters, "geoBoundingBox"), "loc")) = <<"top", "left", "bottom", "right">>
  /\ \A k \in {"top", "left", "bottom", "right"} :
       typeof(Get(Get(Get(filters, "geoBoundingBox"), "loc"), k)) = "number"

\* C9: a bounding box in the flat format with four numbers, 0 and negative
\* numbers included, is returned under geospatial with the same four values
C9_FlatBoxAccepted ==
  (Done /\ IsFlatBox)
    => outcome = Resolve(Obj1("geospatial", Obj1("geoBoundingBox",
                   Obj1("loc", Get(Get(filters, "geoBoundingBox"), "loc")))))

\* what a corner of the box of `filters` holds at place i: the element of an
\* array of two, the lat (place 1) or lon (place 2) of an object
CornerValue(corner, i) ==
  LET c == Get(Get(Get(filters, "geoBoundingBox"), "loc"), corner)
  IN IF isArray(c) THEN (IF Len(c.a) = 2 THEN c.a[i] ELSE Undefined)
     ELSE Get(c, <<"lat", "lon">>[i])

\* the flat box of the four values at the corners of the box of `filters`
FlatOfCorners ==
  FlatBox(CornerValue("topLeft", 1), CornerValue("topLeft", 2),
          CornerValue("bottomRight", 1), CornerValue("bottomRight", 2))

\* filters is a bounding box on `loc` given by two corners of numbers, both
\* arrays or both {lat, lon} objects
IsCornerBox ==
  /\ \A k \in {"top", "left", "bottom", "right"} : typeof(Get(FlatOfCorners, k)) = "number"
  /\ filters \in
       {BoundingBox(ArrayBox(CornerValue("topLeft", 1), CornerValue("topLeft", 2),
                             CornerValue("bottomRight", 1), CornerValue("bottomRight", 2))),
        BoundingBox(ObjectBox(CornerValue("topLeft", 1), CornerValue("topLeft", 2),
                              CornerValue("bottomRight", 1), CornerValue("bottomRight", 2)))}

\* C10: a bounding box given by two corners, as arrays or as {lat, lon}
\* objects, standardizes as the flat box of the same four numbers does
C10_CornersAsFlat ==
  (Done /\ IsCornerBox) => outcome = standardize(BoundingBox(FlatOfCorners))

\* C10 happens: a box given by two arrays has been standardized to a tree
C10_Witness ==
  /\ Accepted
  /\ IsCornerBox
  /\ isArray(Get(Get(Get(filters, "geoBoundingBox"), "loc"), "topLeft"))

\* the bound object of a range filter on `age`
BoundsOf(f) == Get(Get(f, "range"), "age")

\* the places of the attributes of b whose name is in `names`
BoundsNamed(b, names) == {i \in 1..Len(b.o) : b.o[i][1] \in names}

\* a bound object is well formed: not empty, only gt, gte, lt and lte, every
\* value a number, at most one lower and one upper bound, and the lower
\* bound (default minus infinity) strictly below the upper one (default plus
\* infinity)
WellBounded(b) ==
  /\ Len(b.o) > 0
  /\ \A i \in 1..Len(b.o) : b.o[i][1] \in {"gt", "gte", "lt", "lte"} /\ typeof(b.o[i][2]) = "number"
  /\ Cardinality(BoundsNamed(b, {"gt", "gte"})) <= 1
  /\ Cardinality(BoundsNamed(b, {"lt", "lte"})) <= 1
  /\ \A i \in BoundsNamed(b, {"gt", "gte"}) : b.o[i][2].n < Infinity
  /\ \A j \in BoundsNamed(b, {"lt", "lte"}) : b.o[j][2].n > 0 - Infinity
  /\ \A i \in BoundsNamed(b, {"gt", "gte"}), j \in BoundsNamed(b, {"lt", "lte"}) :
       b.o[i][2].n < b.o[j][2].n

\* C11: a range filter on one field is returned unchanged when its bound
\* object is well formed, and is rejected when it is not
C11_RangeAccepted ==
  (Done /\ filters \in RangeFilters)
    => IF WellBounded(BoundsOf(filters)) THEN outcome = Resolve(filters)
       ELSE outcome.kind = "rejected"

\* v has no key: undefined, null, or an object or array that holds nothing
HasNoKey(v) ==
  \/ v \in {Undefined, Null}
  \/ v.t = "object" /\ Len(v.o) = 0
  \/ v.t = "array" /\ Len(v.a) = 0

\* C12: a filter with no top-level key, undefined and null included, is
\* standardized to the empty mapping {}
C12_NoKeyMatchesAll == (Done /\ HasNoKey(filters)) => outcome = Resolve(Obj(<<>>))

\* C12 happens: null has been standardized to {}
C12_Witness == Done /\ filters = Null /\ outcome = Resolve(Obj(<<>>))

\* the nested filter expressions of a filter: the elements of the list of
\* and/or, the value of not, the elements of the lists of bool
NestedIn(f) ==
  IF f.t # "object" \/ Len(f.o) # 1 THEN {}
  ELSE LET k == f.o[1][1]
           v == f.o[1][2]
       IN CASE k \in {"and", "or"} /\ isArray(v) -> {v.a[i] : i \in 1..Len(v.a)}
            [] k = "not" -> {v}
            [] k = "bool" /\ v.t = "object" ->
                 UNION {IF isArray(v.o[i][2])
                          THEN {v.o[i][2].a[j] : j \in 1..Len(v.o[i][2].a)} ELSE {} :
                        i \in 1..Len(v.o)}
            [] OTHER -> {}

\* v is a mapping of two keys or more
HasManyKeys(v) == v.t = "object" /\ Len(v.o) >= 2

\* C13: a filter of two keys or more fails with "Invalid filter syntax", at
\* the top level and as the only filter nested in and, or, not or bool
C13_ManyKeysInvalid ==
  (Done /\ (HasManyKeys(filters)
            \/ (Cardinality(NestedIn(filters)) = 1 /\ \A c \in NestedIn(filters) : HasManyKeys(c))))
    => outcome = Reject(BadRequestError("Invalid filter syntax"))

\* the nested filters of `filters` that fail when standardized on their own
InvalidNested ==
  {c \in NestedIn(filters) : standardize(c).kind \in {"rejected", "thrown"}}

\* C14: when a nested filter is invalid the whole call fails, and with the
\* very error that standardizing one of the invalid nested filters gives
C14_ChildErrorPropagates ==
  (Done /\ InvalidNested # {})
    => /\ outcome.kind \in {"rejected", "thrown"}
       /\ \E c \in InvalidNested : outcome.error = standardize(c).error

\* filters is {keyword: content}
IsKeyword(keyword) == filters.t = "object" /\ ObjectKeys(filters) = <<keyword>>

\* l is a list of strings that holds at least one
IsStringList(l) ==
  isArray(l) /\ Len(l.a) > 0 /\ \A i \in 1..Len(l.a) : typeof(l.a[i]) = "string"

\* {or: [{equals: {field: v1}}, .., {equals: {field: vn}}], _isLeaf: true}
EqualsToOneOf(field, l) ==
  Obj2("or", Arr([i \in 1..Len(l.a) |-> Obj1("equals", Obj1(field, l.a[i]))]),
       "_isLeaf", Bool(TRUE))

\* C16: ids over a non-empty list of strings under `values`, its only
\* attribute, returns the `or` of one equals on _id per value, in the order
\* of the list and with its duplicates, leaf flag true; any other ids filter
\* is rejected
C16_IdsToEquals ==
  (Done /\ IsKeyword("ids"))
    => LET content == Get(filters, "ids")
       IN IF content.t = "object" /\ ObjectKeys(content) = <<"values">>
               /\ IsStringList(Get(content, "values"))
            THEN outcome = Resolve(EqualsToOneOf("_id", Get(content, "values")))
            ELSE outcome.kind = "rejected"

\* C16 happens: ids over a list with a duplicate has been standardized
C16_Witness ==
  /\ Accepted
  /\ filters = Obj1("ids", Obj1("values", Arr(<<Str("x"), Str("y"), Str("x")>>)))

\* C17: `in` over a non-empty list of strings under its only field returns
\* the `or` of one equals on that field per value, in the order of the list,
\* leaf flag true; any other `in` filter is rejected
C17_InToEquals ==
  (Done /\ IsKeyword("in"))
    => LET content == Get(filters, "in")
       IN IF content.t = "object" /\ Len(content.o) = 1 /\ IsStringList(content.o[1][2])
            THEN outcome = Resolve(EqualsToOneOf(content.o[1][1], content.o[1][2]))
            ELSE outcome.kind = "rejected"

\* C17 happens: `in` over a list of two different values has been
\* standardized
C17_Witness ==
  /\ Accepted
  /\ filters = Obj1("in", Obj1("f", Arr(<<Str("x"), Str("y")>>)))

\* C18: {missing: X} is accepted exactly when {exists: X} is, and its result
\* is then {not: {exists: {field: X.field}}}
C18_MissingIsNotExists ==
  (Done /\ IsKeyword("missing"))
    => LET X == Get(filters, "missing")
       IN /\ (outcome.kind = "fulfilled") = (standardize(Obj1("exists", X)).kind = "fulfilled")
          /\ outcome.kind = "fulfilled"
               => outcome.value = Obj1("not", Obj1("exists", Obj1("field", Get(X, "field"))))

\* C18 happens: a missing filter has been standardized
C18_Witness == Accepted /\ IsKeyword("missing")

\* the only element of the list of `filters`, an and or an or of one valid
\* filter; Undefined for any other filter
OnlyElement ==
  IF (IsKeyword("and") \/ IsKeyword("or"))
       /\ isArray(filters.o[1][2]) /\ Len(filters.o[1][2].a) = 1
       /\ filters.o[1][2].a[1].t = "object" /\ Len(filters.o[1][2].a[1].o) = 1
       /\ standardize(filters.o[1][2].a[1]).kind = "fulfilled"
    THEN filters.o[1][2].a[1] ELSE Undefined

\* C19: {and: [x]} and {or: [x]} over a valid filter x standardize to the
\* tree x standardizes to
C19_SingletonUnwrapped ==
  (Done /\ OnlyElement # Undefined) => outcome = standardize(OnlyElement)

\* the list of points of a geoPolygon filter on `loc`
PointsOf(f) == Get(Get(Get(f, "geoPolygon"), "loc"), "points").a

\* C20: a polygon of no point fails as an empty list, a polygon of one or
\* two points fails for want of three, and a polygon of three convertible
\* points or more is returned under geospatial as one [lat, lon] pair per
\* point, in the order of the points
C20_PolygonPoints ==
  (Done /\ filters \in PolygonFilters)
    => LET points == PointsOf(filters)
       IN CASE Len(points) = 0 ->
                 outcome = Reject(BadRequestError("Attribute \"points\" in  \"geoPolygon.loc\" cannot be empty"))
            [] Len(points) \in {1, 2} ->
                 outcome = Reject(BadRequestError("\"geoPolygon.loc\": at least 3 points are required to build a polygon"))
            [] OTHER ->
                 (\A i \in 1..Len(points) : convertGeopoint(points[i]) # Null)
                   => outcome = Resolve(Obj1("geospatial", Obj1("geoPolygon", Obj1("loc",
                        Arr([i \in 1..Len(points) |->
                              Arr(<<Get(convertGeopoint(points[i]), "lat"),
                                    Get(convertGeopoint(points[i]), "lon")>>)])))))

\* C20 happens: a polygon of three points in three encodings has been
\* standardized
C20_Witness ==
  /\ Accepted
  /\ filters \in PolygonFilters
  /\ PointsOf(filters) = <<Arr(<<Num(0), Num(1)>>), Obj2("lat", Num(1), "lon", Num(0)), Str("1, 2")>>

\* C15: a call of standardize, accepted or not, assigns to no object of the
\* tree it was given, which is the same tree after the call
C15_InputNotWritten == [][filters' = filters /\ ~written']_vars

\* C15 happens: bool has joined a clause to the result of its `must` clause,
\* and the tree returned holds objects of the tree given
C15_Witness ==
  /\ Accepted
  /\ IsBoolOf(<<"must", "must_not">>)
  /\ \E i \in 1..Len(Trace(filters).origin.of) : Trace(filters).origin.of[i].input
  /\ \E i \in 1..Len(Trace(filters).origin.of) : ~Trace(filters).origin.of[i].input

RECURSIVE TreeNodes(_)
\* the nodes of a tree: the tree, the nodes of the children of its and/or
\* list, and the nodes of the operand of its `not`
TreeNodes(v) ==
  {v} \cup
    IF IsNode(v, "and") \/ IsNode(v, "or")
      THEN UNION {TreeNodes(Children(v)[i]) : i \in 1..Len(Children(v))}
    ELSE IF v.t = "object" /\ Len(v.o) > 0 /\ v.o[1][1] = "not" THEN TreeNodes(v.o[1][2])
    ELSE {}

\* the keywords of a canonical tree
CanonicalKeywords == {"exists", "equals", "range", "regexp", "geospatial", "and", "or", "not"}

\* the keys of the node v are a canonical keyword and, on a combinator, the
\* leaf flag
HasCanonicalKeys(v) ==
  \A i \in 1..Len(ObjectKeys(v)) :
    \/ ObjectKeys(v)[i] \in CanonicalKeywords
    \/ ObjectKeys(v)[i] = "_isLeaf" /\ ObjectKeys(v)[1] \in {"and", "or", "not"}

\* C21: every node of a tree returned for a non-empty filter has a canonical
\* keyword as its key, with the leaf flag next to it on a combinator; no
\* input-only keyword is the key of a node
C21_CanonicalKeywords ==
  (Accepted /\ filters.t = "object" /\ Len(filters.o) > 0)
    => \A v \in TreeNodes(outcome.value) : v.t = "object" => HasCanonicalKeys(v)

\* C21 happens: a bool of input-only keywords has been standardized to a
\* tree of three levels
C21_Witness ==
  /\ Accepted
  /\ IsKeyword("bool")
  /\ \E v \in TreeNodes(outcome.value) : IsNode(v, "or") /\ v # outcome.value
  /\ \E v \in TreeNodes(outcome.value) : v.t = "object" /\ ObjectKeys(v) = <<"not">>

\* C22: a call that has settled among other calls on the instance has the
\* outcome it has alone, and a call between two callbacks holds the result
\* of folding its own elements so far
C22_CallsIndependent ==
  \A c \in DOMAIN frames :
    /\ frames[c].at = "done" => frames[c].outcome = Settled(standardize(frames[c].filter))
    /\ frames[c].at = "reducing"
         => Resolve(frames[c].result)
              = Reduce([i \in 1..frames[c].n |->
                          standardize(Get(frames[c].filter, OperandOf(frames[c].filter)).a[i])],
                       OperandOf(frames[c].filter), frames[c].n)

\* C22 happens: two calls have settled with a list each, after callbacks of
\* the one ran between callbacks of the other
C22_Witness ==
  /\ DOMAIN frames = Callers
  /\ \A c \in Callers :
       /\ frames[c].at = "done"
       /\ frames[c].overlapped
       /\ frames[c].outcome.kind = "fulfilled"
       /\ IsNode(frames[c].outcome.value, OperandOf(frames[c].filter))
  /\ frames[1].filter # frames[2].filter

\* C23: a bool whose only attribute is a valid `must` list, the list of one
\* element included, standardizes to what `and` over that list standardizes
\* to
C23_MustIsAnd ==
  (Done /\ IsBoolOf(<<"must">>)
        /\ standardize(Obj1("and", Get(Get(filters, "bool"), "must"))).kind = "fulfilled")
    => outcome = standardize(Obj1("and", Get(Get(filters, "bool"), "must")))

\* v is an `and` or an `or` node
IsCombinator(v) == IsNode(v, "and") \/ IsNode(v, "or")

\* C24: the leaf flag of every `and` and `or` node of a returned tree is the
\* boolean that tells that no child of the node is an `and` or an `or` node
C24_LeafFlag ==
  Accepted => \A v \in Combinators :
    Get(v, "_isLeaf") = Bool(\A i \in 1..Len(Children(v)) : ~IsCombinator(Children(v)[i]))

\* v is an object that is no array and has a key
IsNonEmptyObject(v) == v.t = "object" /\ Len(v.o) > 0

\* C25: a bool with an attribute other than must, must_not, should and
\* should_not is rejected for that attribute whatever its clauses hold, none
\* of which is standardized; a bool over a value that is not a non-empty
\* object is rejected for the shape of the value
C25_BoolAttributes ==
  (Done /\ IsKeyword("bool"))
    => IF ~IsNonEmptyObject(Get(filters, "bool"))
         THEN outcome = Reject(BadRequestError("\"bool\" must be a non-empty object"))
       ELSE (\E i \in 1..Len(ObjectKeys(Get(filters, "bool"))) :
               ObjectKeys(Get(filters, "bool"))[i] \notin {"must", "must_not", "should", "should_not"})
              => outcome = Reject(BadRequestError("\"bool\" operand accepts only the following attributes: must, must_not, should, should_not"))

\* C25 happens: a bool with an unknown attribute next to a `must` clause
\* that `and` refuses has been rejected
C25_Witness ==
  /\ Done
  /\ filters = Obj1("bool", Obj2("must", Arr(<<Obj1("exists", Str("a"))>>),
                                 "filter", Arr(<<Obj1("exists", Obj1("field", Str("a")))>>)))
  /\ outcome.kind = "rejected"

\* v is an object with exactly one keyword, which holds a non-empty array
\* if it is `and` or `or` and a non-empty object if not
IsOneExpression(v) ==
  /\ v.t = "object"
  /\ Len(v.o) = 1
  /\ IF v.o[1][1] \in {"and", "or"}
       THEN isArray(v.o[1][2]) /\ Len(v.o[1][2].a) > 0
       ELSE IsNonEmptyObject(v.o[1][2])

\* C26: a `not` over one expression that standardizes is {not: that
\* expression standardized}; a `not` over a value that is not an object of
\* exactly one keyword, or whose keyword holds an empty or ill-shaped value,
\* is rejected
C26_NotWraps ==
  (Done /\ IsKeyword("not"))
    => IF IsOneExpression(Get(filters, "not"))
         THEN standardize(Get(filters, "not")).kind \in {"fulfilled", "returned"}
                => outcome = Resolve(Obj1("not", standardize(Get(filters, "not")).value))
         ELSE outcome.kind = "rejected"

\* C26 happens: a `not` over an `or` of two leaves has been standardized
C26_Witness ==
  /\ Accepted
  /\ IsKeyword("not")
  /\ IsOneExpression(Get(filters, "not"))
  /\ Get(filters, "not").o[1][1] = "or"
  /\ IsNode(outcome.value.o[1][2], "or")

\* the name of the attribute of a distance-range body that is neither `from`
\* nor `to`
DocFieldName(body) ==
  Only({k \in {ObjectKeys(body)[i] : i \in 1..Len(body.o)} : k \notin {"from", "to"}})

\* the value of that attribute
DocFieldOf(body) == Get(body, DocFieldName(body))

\* body has exactly three attributes, two of them `from` and `to`, both strings
IsRangeBody(body) ==
  /\ body.t = "object"
  /\ Len(body.o) = 3
  /\ typeof(Get(body, "from")) = "string"
  /\ typeof(Get(body, "to")) = "string"

\* the text d is one the distance converter reads
IsDistance(d) == d.s \in DOMAIN Distances

\* C27: a geoDistanceRange filter is accepted only when its body has exactly
\* three attributes, two of them `from` and `to`, both strings, the third a
\* point the converter reads, and `from` converts to strictly less than `to`;
\* with a readable point and two readable distances, `from` not below `to` is
\* rejected for its radii; with a readable point, the error of the distance
\* converter is the error of the call
C27_DistanceRange ==
  (Done /\ IsKeyword("geoDistanceRange"))
    => LET body == Get(filters, "geoDistanceRange")
       IN /\ outcome.kind = "fulfilled"
               => /\ IsRangeBody(body)
                  /\ convertGeopoint(DocFieldOf(body)) # Null
                  /\ IsDistance(Get(body, "from")) /\ IsDistance(Get(body, "to"))
                  /\ Distances[Get(body, "from").s] < Distances[Get(body, "to").s]
          /\ (IsRangeBody(body) /\ convertGeopoint(DocFieldOf(body)) # Null)
               => IF ~IsDistance(Get(body, "from"))
                    THEN outcome = Reject(convertDistance(Get(body, "from")).error)
                  ELSE IF ~IsDistance(Get(body, "to"))
                    THEN outcome = Reject(convertDistance(Get(body, "to")).error)
                  ELSE Distances[Get(body, "from").s] >= Distances[Get(body, "to").s]
                         => outcome = Reject(BadRequestError(
                              "geoDistanceRange." \o DocFieldName(body)
                                \o ": inner radius must be smaller than outer radius"))

\* a distance range of equal radii around a readable point was refused
C27_Witness ==
  /\ Done /\ IsKeyword("geoDistanceRange")
  /\ IsRangeBody(Get(filters, "geoDistanceRange"))
  /\ convertGeopoint(DocFieldOf(Get(filters, "geoDistanceRange"))) # Null
  /\ Get(Get(filters, "geoDistanceRange"), "from") = Get(Get(filters, "geoDistanceRange"), "to")
  /\ IsDistance(Get(Get(filters, "geoDistanceRange"), "from"))
  /\ outcome.kind = "rejected"

\* body is an object with no attribute other than `value` and `flags`, a
\* string under `value`, and a string under `flags` when it has one
IsRegexpBody(body) ==
  /\ body.t = "object"
  /\ \A i \in 1..Len(body.o) : body.o[i][1] \in {"value", "flags"}
  /\ typeof(Get(body, "value")) = "string"
  /\ Get(body, "flags") = Undefined \/ typeof(Get(body, "flags")) = "string"

\* C28: a regexp filter is accepted only when it has exactly one field over
\* an object with no attribute other than `value` and `flags`, a string
\* under `value`, a string under `flags` if any, and a pattern that compiles;
\* an accepted regexp filter is returned as it was given
C28_RegexpShape ==
  (Done /\ IsKeyword("regexp") /\ outcome.kind = "fulfilled")
    => /\ Get(filters, "regexp").t = "object"
       /\ Len(Get(filters, "regexp").o) = 1
       /\ IsRegexpBody(Get(filters, "regexp").o[1][2])
       /\ RegExpCompiles(Get(Get(filters, "regexp").o[1][2], "value"),
                         Get(Get(filters, "regexp").o[1][2], "flags"))
       /\ outcome.value = filters

RECURSIVE Total(_, _)
\* the sum of the first n numbers of the sequence q
Total(q, n) == IF n = 0 THEN 0 ELSE Total(q, n - 1) + q[n]

RECURSIVE Size(_)
\* the number of values of the tree v: v itself, and the values of the
\* trees under its attributes or its elements
Size(v) ==
  CASE v.t = "object" -> 1 + Total([i \in 1..Len(v.o) |-> Size(v.o[i][2])], Len(v.o))
    [] v.t = "array" -> 1 + Total([i \in 1..Len(v.a) |-> Size(v.a[i])], Len(v.a))
    [] OTHER -> 1

\* C29: a call of standardize ends after a number of calls of standardize
\* that the size of its input bounds, whatever the only key of the input is
C29_CallsBounded == Done => Calls(filters) <= Size(filters)

\* the operand of an and/or filter, and the list under it
OperandIn(f) == f.o[1][1]

RECURSIVE Spliced(_, _, _)
\* the first n elements of list standardized, from the left, a result that
\* is a node of the same operand giving its children in its place
Spliced(list, op, n) ==
  IF n = 0 THEN <<>>
  ELSE Spliced(list, op, n - 1)
         \o (IF IsNode(standardize(list[n]).value, op)
               THEN Children(standardize(list[n]).value)
               ELSE <<standardize(list[n]).value>>)

\* C30: the children of the node returned for an accepted and/or filter are
\* the standardized elements of its list from left to right, a same-operand
\* node replaced in place by its children; none is dropped, repeated,
\* merged with an equal one or moved (one child alone is returned unwrapped)
C30_FlatteningKeepsOrder ==
  (Accepted /\ (IsKeyword("and") \/ IsKeyword("or")))
    => LET op == OperandIn(filters)
           expected == Spliced(Get(filters, op).a, op, Len(Get(filters, op).a))
       IN IF Len(expected) = 1 THEN outcome.value = expected[1]
          ELSE IsNode(outcome.value, op) /\ Children(outcome.value) = expected

\* C30 happens: a list whose second element is a node of the same operand
\* that holds a child equal to the first element has been flattened
C30_Witness ==
  /\ Accepted /\ (IsKeyword("and") \/ IsKeyword("or"))
  /\ Len(Get(filters, OperandIn(filters)).a) >= 2
  /\ IsNode(standardize(Get(filters, OperandIn(filters)).a[2]).value, OperandIn(filters))
  /\ Len(Children(outcome.value)) >= 3
  /\ Children(outcome.value)[1] = Children(outcome.value)[2]
====
